---- MODULE Spec2Model ----
(***************************************************************************)
(* Hazard pointers (hazptr / hp), and the synchronized shared pointers     *)
(* (sharedptr / syncsharedptr) built on them.                              *)
(*                                                                         *)
(* Every access to shared memory (a per-CPU slot, the published pointer,   *)
(* a reference count) is one atomic step; the accesses of one thread       *)
(* happen in program order.  The code puts smp_mb() between Store B and    *)
(* Load A on the reader side and between Store A and Load B on the scan    *)
(* side, so the interleaving of these accesses is sequentially consistent. *)
(* A node's address is never handed out again after its release callback   *)
(* has run.                                                                *)
(***************************************************************************)
EXTENDS Integers, FiniteSets

\* Number of possible CPUs (one hazard pointer slot per CPU and domain).
NCPU == 2
\* Number of reader threads (thread 1 is the single updater / retirer).
NReaders == 2
\* Number of sharedptr nodes (addresses) that can be allocated.
NNodes == 2
\* Most non-empty struct sharedptr one thread holds at a time.
MaxHeld == 2
\* Iterations of the loop of test_thread (1000 in the test).
MaxIter == 2
\* Busy-wait rounds before rseq_lock_slowpath sleeps (RSEQ_MUTEX_MAX_BUSY_LOOP, 100).
MaxBusyLoop == 2

NULL == 0

CPUs == 1..NCPU
Writer == 1
Threads == 1..(NReaders + 1)
Readers == Threads \ {Writer}
Nodes == 1..NNodes
Addrs == Nodes \cup {NULL}

VARIABLES
    api,        \* "hazptr" or "hp": which revision of the hazard pointer API is used
    oneshot,    \* TRUE when every thread runs a single call and then stops
    ssp,        \* the published pointer: ssp->spn, *addr_p
    slots,      \* slots[c]: per-CPU hazard pointer slot of the domain (slot->addr)
    refcount,   \* refcount[n]: spn->refcount
    released,   \* released[n]: number of invocations of the release callback on n
    alloc,      \* nodes that have been created / published so far
    held,       \* held[t][n]: number of non-empty struct sharedptr of thread t on n
    pc,         \* pc[t]: position of thread t in the operation it runs
    cpu,        \* cpu[t]: the CPU t is pinned on while preemption is disabled, else 0
    addr,       \* addr[t]: local 'addr' of __hazptr_load_try_protect
    addr2,      \* addr2[t]: local 'addr2' (Load A), the value load_try_protect returns
    spn,        \* spn[t]: local 'spn' of the sharedptr operations, 'addr' of hazptr_scan
    scancpu,    \* scancpu[t]: loop variable 'cpu' of hazptr_scan
    nested,     \* nested[t]: outcome of a try_protect issued while t holds a slot
    loadslot,   \* loadslot[t]: content of t's own slot when t last loaded *addr_p
    cbcalls,    \* cbcalls[c]: invocations of on_match_cb on slot c by the scan in progress
    slots2,     \* slots2[c]: per-CPU slot of a second table: a second domain
                \* (DEFINE_HAZPTR_DOMAIN), or the hp_slot table of the hp revision
    proto,      \* TRUE when the hpref updater always calls hpref_synchronize before
                \* the hpref_refcount_dec of the initial reference (hpref.h:53-62)
    owner,      \* lock.owner of the rseq test mutex: the owning thread, or NULL
    testvar,    \* testvar of the rseq mutex test
    rpc,        \* rpc[t]: position of thread t in test_thread
    expected,   \* expected[t]: local 'expected' of rseq_lock_slowpath after a failed CAS
    busy,       \* busy[t]: local 'i' of rseq_lock_slowpath
    iter        \* iter[t]: local 'i' of test_thread

vars == <<api, oneshot, ssp, slots, refcount, released, alloc, held, pc, cpu,
          addr, addr2, spn, scancpu, nested, loadslot, cbcalls, proto,
          slots2, owner, testvar, rpc, expected, busy, iter>>

\* The variables of the rseq mutex test.
rsvars == <<owner, testvar, rpc, expected, busy, iter>>

\* Where a thread goes when its call returns.
Idle == IF oneshot THEN "done" ELSE "idle"

RECURSIVE SumOver(_, _)
SumOver(f, S) ==
    IF S = {} THEN 0
    ELSE LET x == CHOOSE y \in S : TRUE IN f[x] + SumOver(f, S \ {x})

\* Number of non-empty struct sharedptr thread t holds.
HeldBy(t) == SumOver(held[t], Nodes)

-----------------------------------------------------------------------------
(* Hazard pointer slots: hazptr_try_protect / hp_allocate.                 *)

\* A try_protect that stores without looking at the slot.
TryProtectOverwrite(s, a) ==
    IF a = NULL THEN [ok |-> FALSE, slot |-> s]
    ELSE [ok |-> TRUE, slot |-> a]

\* A try_protect that reports success on a NULL address without storing.
TryProtectNullOk(s, a) ==
    IF a = NULL THEN [ok |-> TRUE, slot |-> s]
    ELSE IF s # NULL THEN [ok |-> FALSE, slot |-> s]
    ELSE [ok |-> TRUE, slot |-> a]

\* hazptr_try_protect(domain, addr, &slot) on a slot holding s.
hazptr_try_protect(s, a) ==
    IF a = NULL THEN [ok |-> FALSE, slot |-> s]
    ELSE IF s # NULL THEN [ok |-> FALSE, slot |-> s]
    ELSE [ok |-> TRUE, slot |-> a]

\* hp_allocate(percpu_slots, addr) on a slot holding s; ok is hp_ctx_addr(ctx) != NULL.
hp_allocate(s, a) ==
    IF a = NULL THEN [ok |-> FALSE, slot |-> s]
    ELSE IF s # NULL THEN [ok |-> FALSE, slot |-> s]
    ELSE [ok |-> TRUE, slot |-> a]

\* The protect call of the API revision in use.
TryProtect(s, a) ==
    IF api = "hp" THEN hp_allocate(s, a) ELSE hazptr_try_protect(s, a)

\* A revalidation that accepts whatever Load A returns.
NoRevalidation(a2, a) == TRUE

\* ptr_eq(addr2, addr)
ptr_eq(a2, a) == a2 = a

\* CPUs on which no thread runs with preemption disabled.
FreeCPUs == {c \in CPUs : \A t \in Threads : cpu[t] # c}

\* preempt_disable(); addr = READ_ONCE(*addr_p);
\* The thread runs on a CPU where no other thread has preemption disabled.  A
\* sharedptr reader calls only while it can store one more sharedptr.
LtpBegin(t) ==
    /\ pc[t] = "idle"
    /\ HeldBy(t) < MaxHeld
    /\ \E c \in FreeCPUs :
        /\ cpu' = [cpu EXCEPT ![t] = c]
        /\ loadslot' = [loadslot EXCEPT ![t] = slots[c]]
    /\ addr' = [addr EXCEPT ![t] = ssp]
    /\ pc' = [pc EXCEPT ![t] = "ltp_protect"]
    /\ UNCHANGED <<rsvars, api, oneshot, slots2, proto, cbcalls, ssp, slots, refcount, released, alloc, held,
                   addr2, spn, scancpu, nested>>

\* retry: if (!hazptr_try_protect(domain, addr, &slot)) return NULL;
LtpProtect(t, pcFail) ==
    /\ pc[t] = "ltp_protect"
    /\ LET r == TryProtect(slots[cpu[t]], addr[t]) IN
        /\ slots' = [slots EXCEPT ![cpu[t]] = r.slot]
        /\ IF r.ok
           THEN /\ pc' = [pc EXCEPT ![t] = "ltp_reload"]
                /\ UNCHANGED <<addr, addr2>>
           ELSE /\ pc' = [pc EXCEPT ![t] = pcFail]
                /\ addr' = [addr EXCEPT ![t] = NULL]
                /\ addr2' = [addr2 EXCEPT ![t] = NULL]
    /\ UNCHANGED <<rsvars, api, oneshot, slots2, proto, cbcalls, ssp, refcount, released, alloc, held, cpu,
                   spn, scancpu, nested, loadslot>>

\* A revalidation that returns the newly loaded address without storing it.
LtpReloadTakeNew(t, pcOk, pcFail) ==
    /\ pc[t] = "ltp_reload"
    /\ addr2' = [addr2 EXCEPT ![t] = ssp]
    /\ loadslot' = [loadslot EXCEPT ![t] = slots[cpu[t]]]
    /\ pc' = [pc EXCEPT ![t] = IF ssp = NULL THEN "ltp_clear" ELSE pcOk]
    /\ addr' = [addr EXCEPT ![t] = IF ssp = NULL THEN @ ELSE NULL]
    /\ UNCHANGED <<rsvars, api, oneshot, slots2, proto, cbcalls, ssp, slots, refcount, released, alloc,
                   held, cpu, spn, scancpu, nested>>

\* smp_mb(); addr2 = READ_ONCE(*addr_p); if (!ptr_eq(addr2, addr)) ... else return addr2;
\* The caller tests the returned address against NULL.
LtpReload(t, pcOk, pcFail) ==
    /\ pc[t] = "ltp_reload"
    /\ addr2' = [addr2 EXCEPT ![t] = ssp]
    /\ loadslot' = [loadslot EXCEPT ![t] = slots[cpu[t]]]
    /\ IF ptr_eq(ssp, addr[t])
       THEN /\ pc' = [pc EXCEPT ![t] = IF ssp = NULL THEN pcFail ELSE pcOk]
            /\ addr' = [addr EXCEPT ![t] = NULL]
       ELSE /\ pc' = [pc EXCEPT ![t] = "ltp_clear"]
            /\ UNCHANGED addr
    /\ UNCHANGED <<rsvars, api, oneshot, slots2, proto, cbcalls, ssp, slots, refcount, released, alloc, held,
                   cpu, spn, scancpu, nested>>

\* The clear of a failed revalidation left out.
LtpClearLeak(t, pcFail) ==
    /\ pc[t] = "ltp_clear"
    /\ IF addr2[t] = NULL
       THEN /\ pc' = [pc EXCEPT ![t] = pcFail]
            /\ addr' = [addr EXCEPT ![t] = NULL]
       ELSE /\ pc' = [pc EXCEPT ![t] = "ltp_protect"]
            /\ addr' = [addr EXCEPT ![t] = addr2[t]]
    /\ addr2' = [addr2 EXCEPT ![t] = NULL]
    /\ UNCHANGED <<rsvars, api, oneshot, slots2, proto, cbcalls, ssp, slots, refcount, released, alloc, held,
                   cpu, spn, scancpu, nested, loadslot>>

\* A failed revalidation that retries whatever the second load returned.
LtpClearRetryAlways(t, pcFail) ==
    /\ pc[t] = "ltp_clear"
    /\ slots' = [slots EXCEPT ![cpu[t]] = NULL]
    /\ pc' = [pc EXCEPT ![t] = "ltp_protect"]
    /\ addr' = [addr EXCEPT ![t] = addr2[t]]
    /\ addr2' = [addr2 EXCEPT ![t] = NULL]
    /\ UNCHANGED <<rsvars, api, oneshot, slots2, proto, cbcalls, ssp, refcount, released, alloc, held,
                   cpu, spn, scancpu, nested, loadslot>>

\* WRITE_ONCE(slot->addr, NULL); if (!addr2) return NULL; addr = addr2; goto retry;
LtpClear(t, pcFail) ==
    /\ pc[t] = "ltp_clear"
    /\ slots' = [slots EXCEPT ![cpu[t]] = NULL]
    /\ IF addr2[t] = NULL
       THEN /\ pc' = [pc EXCEPT ![t] = pcFail]
            /\ addr' = [addr EXCEPT ![t] = NULL]
       ELSE /\ pc' = [pc EXCEPT ![t] = "ltp_protect"]
            /\ addr' = [addr EXCEPT ![t] = addr2[t]]
    /\ addr2' = [addr2 EXCEPT ![t] = NULL]
    /\ UNCHANGED <<rsvars, api, oneshot, slots2, proto, cbcalls, ssp, refcount, released, alloc, held,
                   cpu, spn, scancpu, nested, loadslot>>

\* A second try_protect on the CPU of a thread that holds a protected address.
NestedTryProtect(t) ==
    /\ pc[t] = "hold"
    /\ nested[t] = "none"
    /\ \E a \in alloc :
        LET r == TryProtect(slots[cpu[t]], a) IN
        /\ slots' = [slots EXCEPT ![cpu[t]] = r.slot]
        /\ nested' = [nested EXCEPT ![t] = IF r.ok THEN "ok" ELSE "fail"]
    /\ UNCHANGED <<rsvars, api, oneshot, slots2, proto, cbcalls, ssp, refcount, released, alloc, held, pc, cpu,
                   addr, addr2, spn, scancpu, loadslot>>

\* hazptr_release(slot, addr) / hp_retire(ctx): smp_store_release(&slot->addr, NULL);
HazptrRelease(t, pcFrom, pcNext) ==
    /\ pc[t] = pcFrom
    /\ slots' = [slots EXCEPT ![cpu[t]] = NULL]
    /\ pc' = [pc EXCEPT ![t] = pcNext]
    /\ addr2' = [addr2 EXCEPT ![t] = NULL]
    /\ loadslot' = [loadslot EXCEPT ![t] = NULL]
    /\ UNCHANGED <<rsvars, api, oneshot, slots2, proto, cbcalls, ssp, refcount, released, alloc, held, cpu,
                   addr, spn, scancpu, nested>>

\* preempt_enable() at the end of a reader section of the bare hazard pointer API.
RdEnd(t) ==
    /\ pc[t] = "rd_end"
    /\ pc' = [pc EXCEPT ![t] = Idle]
    /\ cpu' = [cpu EXCEPT ![t] = 0]
    /\ addr' = [addr EXCEPT ![t] = NULL]
    /\ addr2' = [addr2 EXCEPT ![t] = NULL]
    /\ nested' = [nested EXCEPT ![t] = "none"]
    /\ loadslot' = [loadslot EXCEPT ![t] = NULL]
    /\ UNCHANGED <<rsvars, api, oneshot, slots2, proto, cbcalls, ssp, slots, refcount, released, alloc, held,
                   spn, scancpu>>

-----------------------------------------------------------------------------
(* hazptr_scan / hp_scan without callback, and the retirement around it.   *)

\* Scan that does not look at the slots.
ScanStepNoWait(t) ==
    /\ pc[t] = "scan"
    /\ scancpu[t] \in CPUs
    /\ scancpu' = [scancpu EXCEPT ![t] = @ + 1]
    /\ pc' = [pc EXCEPT ![t] = IF scancpu[t] = NCPU THEN "release" ELSE "scan"]
    /\ UNCHANGED <<rsvars, api, oneshot, slots2, proto, cbcalls, ssp, slots, refcount, released, alloc, held,
                   cpu, addr, addr2, spn, nested, loadslot>>

\* for_each_possible_cpu(cpu) smp_cond_load_acquire(&slot->addr, VAL != addr);
ScanStep(t) ==
    /\ pc[t] = "scan"
    /\ scancpu[t] \in CPUs
    /\ slots[scancpu[t]] # spn[t]
    /\ scancpu' = [scancpu EXCEPT ![t] = @ + 1]
    /\ pc' = [pc EXCEPT ![t] = IF scancpu[t] = NCPU THEN "release" ELSE "scan"]
    /\ UNCHANGED <<rsvars, api, oneshot, slots2, proto, cbcalls, ssp, slots, refcount, released, alloc, held,
                   cpu, addr, addr2, spn, nested, loadslot>>

\* The release callback / the free of the retired address, after the scan.
Release(t) ==
    /\ pc[t] = "release"
    /\ released' = [released EXCEPT ![spn[t]] = @ + 1]
    /\ pc' = [pc EXCEPT ![t] = Idle]
    /\ spn' = [spn EXCEPT ![t] = NULL]
    /\ scancpu' = [scancpu EXCEPT ![t] = 0]
    /\ UNCHANGED <<rsvars, api, oneshot, slots2, proto, cbcalls, ssp, slots, refcount, alloc, held, cpu, addr,
                   addr2, nested, loadslot>>

\* The next address the allocator hands out.
Fresh == {n \in Nodes : n \notin alloc /\ \A m \in Nodes : m < n => m \in alloc}

\* A retirer whose scan walks the slots for a NULL address as well.
UnpublishScanNull(t) ==
    /\ t = Writer
    /\ pc[t] = "idle"
    /\ \E new \in Fresh \cup {NULL} :
        /\ new # ssp
        /\ ssp' = new
        /\ alloc' = alloc \cup (IF new = NULL THEN {} ELSE {new})
    /\ pc' = [pc EXCEPT ![t] = "scan"]
    /\ spn' = [spn EXCEPT ![t] = ssp]
    /\ scancpu' = [scancpu EXCEPT ![t] = 1]
    /\ UNCHANGED <<rsvars, api, oneshot, slots2, proto, cbcalls, slots, refcount, released, held, cpu, addr,
                   addr2, nested, loadslot>>

\* Store A: the retirer overwrites the published pointer, then calls
\* hazptr_scan(domain, old, NULL); a NULL addr makes the scan return at once.
Unpublish(t) ==
    /\ t = Writer
    /\ pc[t] = "idle"
    /\ \E new \in Fresh \cup {NULL} :
        /\ new # ssp
        /\ ssp' = new
        /\ alloc' = alloc \cup (IF new = NULL THEN {} ELSE {new})
    /\ IF ssp = NULL
       THEN UNCHANGED <<pc, spn, scancpu>>
       ELSE /\ pc' = [pc EXCEPT ![t] = "scan"]
            /\ spn' = [spn EXCEPT ![t] = ssp]
            /\ scancpu' = [scancpu EXCEPT ![t] = 1]
    /\ UNCHANGED <<rsvars, api, oneshot, slots2, proto, cbcalls, slots, refcount, released, held, cpu, addr,
                   addr2, nested, loadslot>>

-----------------------------------------------------------------------------
(* hazptr_scan / hp_scan with a callback: one pass, on_match_cb on a match. *)

\* Store A, then hazptr_scan(domain, old, on_match_cb) with a non-NULL callback.
UnpublishCb(t) ==
    /\ t = Writer
    /\ pc[t] = "idle"
    /\ \E new \in Fresh \cup {NULL} :
        /\ new # ssp
        /\ ssp' = new
        /\ alloc' = alloc \cup (IF new = NULL THEN {} ELSE {new})
    /\ IF ssp = NULL
       THEN UNCHANGED <<pc, spn, scancpu, cbcalls>>
       ELSE /\ pc' = [pc EXCEPT ![t] = "scan_cb"]
            /\ spn' = [spn EXCEPT ![t] = ssp]
            /\ scancpu' = [scancpu EXCEPT ![t] = 1]
            /\ cbcalls' = [c \in CPUs |-> 0]
    /\ UNCHANGED <<rsvars, api, oneshot, slots2, proto, slots, refcount, released, held, cpu, addr,
                   addr2, nested, loadslot>>

\* A callback scan that invokes the callback on every slot.
ScanCbStepAlways(t) ==
    /\ pc[t] = "scan_cb"
    /\ scancpu[t] \in CPUs
    /\ cbcalls' = [cbcalls EXCEPT ![scancpu[t]] = @ + 1]
    /\ scancpu' = [scancpu EXCEPT ![t] = @ + 1]
    /\ pc' = [pc EXCEPT ![t] = IF scancpu[t] = NCPU THEN "scan_cb_ret" ELSE "scan_cb"]
    /\ UNCHANGED <<rsvars, api, oneshot, slots2, proto, ssp, slots, refcount, released, alloc, held,
                   cpu, addr, addr2, spn, nested, loadslot>>

\* A callback scan that clears the matching slot itself.
ScanCbStepClear(t) ==
    /\ pc[t] = "scan_cb"
    /\ scancpu[t] \in CPUs
    /\ cbcalls' = [cbcalls EXCEPT ![scancpu[t]] =
                     IF slots[scancpu[t]] = spn[t] THEN @ + 1 ELSE @]
    /\ slots' = [slots EXCEPT ![scancpu[t]] = IF @ = spn[t] THEN NULL ELSE @]
    /\ scancpu' = [scancpu EXCEPT ![t] = @ + 1]
    /\ pc' = [pc EXCEPT ![t] = IF scancpu[t] = NCPU THEN "scan_cb_ret" ELSE "scan_cb"]
    /\ UNCHANGED <<rsvars, api, oneshot, slots2, proto, ssp, refcount, released, alloc, held,
                   cpu, addr, addr2, spn, nested, loadslot>>

\* for_each_possible_cpu(cpu)
\*     if (smp_load_acquire(&slot->addr) == addr) on_match_cb(cpu, slot, addr);
ScanCbStep(t) ==
    /\ pc[t] = "scan_cb"
    /\ scancpu[t] \in CPUs
    /\ cbcalls' = [cbcalls EXCEPT ![scancpu[t]] =
                     IF slots[scancpu[t]] = spn[t] THEN @ + 1 ELSE @]
    /\ scancpu' = [scancpu EXCEPT ![t] = @ + 1]
    /\ pc' = [pc EXCEPT ![t] = IF scancpu[t] = NCPU THEN "scan_cb_ret" ELSE "scan_cb"]
    /\ UNCHANGED <<rsvars, api, oneshot, slots2, proto, ssp, slots, refcount, released, alloc, held,
                   cpu, addr, addr2, spn, nested, loadslot>>

\* The return of hazptr_scan in callback mode, after the pass over the CPUs.
ScanCbReturn(t) ==
    /\ pc[t] = "scan_cb_ret"
    /\ pc' = [pc EXCEPT ![t] = Idle]
    /\ spn' = [spn EXCEPT ![t] = NULL]
    /\ scancpu' = [scancpu EXCEPT ![t] = 0]
    /\ cbcalls' = [c \in CPUs |-> 0]
    /\ UNCHANGED <<rsvars, api, oneshot, slots2, proto, ssp, slots, refcount, released, alloc, held,
                   cpu, addr, addr2, nested, loadslot>>

-----------------------------------------------------------------------------
(* The bare hazard pointer protocol: one retirer, readers on other CPUs.   *)

TypeInit ==
    /\ slots = [c \in CPUs |-> NULL]
    /\ released = [n \in Nodes |-> 0]
    /\ held = [t \in Threads |-> [n \in Nodes |-> 0]]
    /\ pc = [t \in Threads |-> "idle"]
    /\ cpu = [t \in Threads |-> 0]
    /\ addr = [t \in Threads |-> NULL]
    /\ addr2 = [t \in Threads |-> NULL]
    /\ spn = [t \in Threads |-> NULL]
    /\ scancpu = [t \in Threads |-> 0]
    /\ nested = [t \in Threads |-> "none"]
    /\ loadslot = [t \in Threads |-> NULL]
    /\ cbcalls = [c \in CPUs |-> 0]
    /\ slots2 = [c \in CPUs |-> NULL]
    /\ proto = TRUE
    /\ owner = NULL
    /\ testvar = 0
    /\ rpc = [t \in Threads |-> "lock"]
    /\ expected = [t \in Threads |-> NULL]
    /\ busy = [t \in Threads |-> 0]
    /\ iter = [t \in Threads |-> 0]

InitB ==
    /\ TypeInit
    /\ api \in {"hazptr", "hp"}
    /\ oneshot = FALSE
    /\ ssp = 1
    /\ alloc = {1}
    /\ refcount = [n \in Nodes |-> 0]

ReaderB(t) ==
    \/ LtpBegin(t)
    \/ LtpProtect(t, "rd_end")
    \/ LtpReload(t, "hold", "rd_end")
    \/ LtpClear(t, "rd_end")
    \/ NestedTryProtect(t)
    \/ HazptrRelease(t, "hold", "rd_end")
    \/ RdEnd(t)

RetirerB(t) ==
    \/ Unpublish(t)
    \/ ScanStep(t)
    \/ Release(t)

NextB ==
    \/ \E t \in Readers : ReaderB(t)
    \/ RetirerB(Writer)

SpecB == InitB /\ [][NextB]_vars

\* Reader sections are bounded and the scanning CPU keeps running.
SpecBFair ==
    /\ SpecB
    /\ \A t \in Readers :
        WF_vars(LtpProtect(t, "rd_end") \/ LtpReload(t, "hold", "rd_end") \/ LtpClear(t, "rd_end")
                \/ HazptrRelease(t, "hold", "rd_end") \/ RdEnd(t))
    /\ WF_vars(ScanStep(Writer))

\* A retirer that scans with a callback.
RetirerCb(t) ==
    \/ UnpublishCb(t)
    \/ ScanCbStep(t)
    \/ ScanCbReturn(t)

\* Readers against a retirer that uses either mode of the scan.
NextC ==
    \/ \E t \in Readers : ReaderB(t)
    \/ RetirerB(Writer)
    \/ RetirerCb(Writer)

SpecC == InitB /\ [][NextC]_vars

\* Reader sections are bounded and the scanning CPU keeps running.
SpecCFair ==
    /\ SpecC
    /\ \A t \in Readers :
        WF_vars(LtpProtect(t, "rd_end") \/ LtpReload(t, "hold", "rd_end") \/ LtpClear(t, "rd_end")
                \/ HazptrRelease(t, "hold", "rd_end") \/ RdEnd(t))
    /\ WF_vars(ScanStep(Writer))
    /\ WF_vars(ScanCbStep(Writer) \/ ScanCbReturn(Writer))

-----------------------------------------------------------------------------
(* Reference counts (refcount_t), as the sharedptr code uses them.         *)

refcount_inc(r) == r + 1

\* refcount_inc_not_zero(): increments unless the count is 0.
refcount_inc_not_zero(r) ==
    IF r = 0 THEN [ok |-> FALSE, val |-> 0] ELSE [ok |-> TRUE, val |-> r + 1]

\* refcount_dec_and_test(): decrements, true when the count reached 0.
refcount_dec_and_test(r) == [zero |-> r - 1 = 0, val |-> r - 1]

-----------------------------------------------------------------------------
(* sharedptr / syncsharedptr.                                              *)

hzvars == <<rsvars, api, oneshot, slots2, proto, cbcalls, slots, released, cpu, addr, addr2, scancpu,
            nested, loadslot>>

\* sharedptr_create(spn): refcount_set(&spn->refcount, 1);
sharedptr_create(t) ==
    /\ t = Writer
    /\ pc[t] = "idle"
    /\ \E n \in Fresh :
        /\ refcount' = [refcount EXCEPT ![n] = 1]
        /\ alloc' = alloc \cup {n}
        /\ held' = [held EXCEPT ![t][n] = @ + 1]
    /\ pc' = [pc EXCEPT ![t] = Idle]
    /\ UNCHANGED <<hzvars, ssp, spn>>

\* sharedptr_copy(sp): if (spn) refcount_inc(&spn->refcount);
sharedptr_copy(t) ==
    /\ pc[t] = "idle"
    /\ \E n \in Nodes :
        /\ held[t][n] > 0
        /\ HeldBy(t) < MaxHeld
        /\ refcount' = [refcount EXCEPT ![n] = refcount_inc(@)]
        /\ held' = [held EXCEPT ![t][n] = @ + 1]
    /\ pc' = [pc EXCEPT ![t] = Idle]
    /\ UNCHANGED <<hzvars, ssp, alloc, spn>>

\* A move that publishes the node and leaves src as it was.
MoveToSyncKeepSrc(t) ==
    /\ t = Writer
    /\ pc[t] = "idle"
    /\ ssp = NULL
    /\ \E n \in Nodes :
        /\ held[t][n] > 0
        /\ ssp' = n
    /\ pc' = [pc EXCEPT ![t] = Idle]
    /\ UNCHANGED <<hzvars, refcount, alloc, spn, held>>

\* sharedptr_move_to_sync(dst, src): rcu_assign_pointer(dst->spn, src->spn); src->spn = NULL;
sharedptr_move_to_sync(t) ==
    /\ t = Writer
    /\ pc[t] = "idle"
    /\ ssp = NULL
    /\ \E n \in Nodes :
        /\ held[t][n] > 0
        /\ ssp' = n
        /\ held' = [held EXCEPT ![t][n] = @ - 1]
    /\ pc' = [pc EXCEPT ![t] = Idle]
    /\ UNCHANGED <<hzvars, refcount, alloc, spn>>

\* A copy to the syncsharedptr that publishes without counting.
CtsIncNone(t) ==
    /\ t = Writer
    /\ pc[t] = "idle"
    /\ ssp = NULL
    /\ \E n \in Nodes :
        /\ held[t][n] > 0
        /\ spn' = [spn EXCEPT ![t] = n]
    /\ pc' = [pc EXCEPT ![t] = "cts_pub"]
    /\ UNCHANGED <<hzvars, ssp, refcount, alloc, held>>

\* sharedptr_copy_to_sync(dst, src): if (spn) refcount_inc(&spn->refcount);
CtsInc(t) ==
    /\ t = Writer
    /\ pc[t] = "idle"
    /\ ssp = NULL
    /\ \E n \in Nodes :
        /\ held[t][n] > 0
        /\ refcount' = [refcount EXCEPT ![n] = refcount_inc(@)]
        /\ spn' = [spn EXCEPT ![t] = n]
    /\ pc' = [pc EXCEPT ![t] = "cts_pub"]
    /\ UNCHANGED <<hzvars, ssp, alloc, held>>

\* sharedptr_copy_to_sync(dst, src): rcu_assign_pointer(dst->spn, spn);
CtsPublish(t) ==
    /\ pc[t] = "cts_pub"
    /\ ssp' = spn[t]
    /\ spn' = [spn EXCEPT ![t] = NULL]
    /\ pc' = [pc EXCEPT ![t] = Idle]
    /\ UNCHANGED <<hzvars, refcount, alloc, held>>

\* Promotion by a plain increment, which also raises a count of 0.
CfsIncPlain(t) ==
    /\ pc[t] = "cfs_inc"
    /\ refcount' = [refcount EXCEPT ![addr2[t]] = refcount_inc(@)]
    /\ spn' = [spn EXCEPT ![t] = addr2[t]]
    /\ pc' = [pc EXCEPT ![t] = "cfs_release"]
    /\ UNCHANGED <<hzvars, ssp, alloc, held>>

\* A promotion that, on a count of zero, scans for the node from inside
\* the reader section.
CfsIncScanOnFail(t) ==
    /\ pc[t] = "cfs_inc"
    /\ LET r == refcount_inc_not_zero(refcount[addr2[t]]) IN
        /\ refcount' = [refcount EXCEPT ![addr2[t]] = r.val]
        /\ spn' = [spn EXCEPT ![t] = addr2[t]]
        /\ pc' = [pc EXCEPT ![t] = IF r.ok THEN "cfs_release" ELSE "scan"]
        /\ scancpu' = [scancpu EXCEPT ![t] = IF r.ok THEN @ ELSE 1]
    /\ UNCHANGED <<rsvars, api, oneshot, slots2, proto, cbcalls, ssp, slots, released, alloc, held,
                   cpu, addr, addr2, nested, loadslot>>

\* sharedptr_copy_from_sync: if (!refcount_inc_not_zero(&spn->refcount)) spn = NULL;
\* On a node whose release callback has run the access is a use after free:
\* either outcome can be read from the freed memory.
CfsInc(t) ==
    /\ pc[t] = "cfs_inc"
    /\ IF released[addr2[t]] > 0
       THEN /\ \E ok \in BOOLEAN :
                 spn' = [spn EXCEPT ![t] = IF ok THEN addr2[t] ELSE NULL]
            /\ UNCHANGED refcount
       ELSE LET r == refcount_inc_not_zero(refcount[addr2[t]]) IN
            /\ refcount' = [refcount EXCEPT ![addr2[t]] = r.val]
            /\ spn' = [spn EXCEPT ![t] = IF r.ok THEN addr2[t] ELSE NULL]
    /\ pc' = [pc EXCEPT ![t] = "cfs_release"]
    /\ UNCHANGED <<hzvars, ssp, alloc, held>>

\* sharedptr_copy_from_sync: end: sp.spn = spn; preempt_enable(); return sp;
CfsEnd(t) ==
    /\ pc[t] = "cfs_end"
    /\ held' = [held EXCEPT ![t] =
                  [n \in Nodes |-> IF n = spn[t] THEN @[n] + 1 ELSE @[n]]]
    /\ pc' = [pc EXCEPT ![t] = Idle]
    /\ cpu' = [cpu EXCEPT ![t] = 0]
    /\ addr' = [addr EXCEPT ![t] = NULL]
    /\ addr2' = [addr2 EXCEPT ![t] = NULL]
    /\ spn' = [spn EXCEPT ![t] = NULL]
    /\ loadslot' = [loadslot EXCEPT ![t] = NULL]
    /\ UNCHANGED <<rsvars, api, oneshot, slots2, proto, cbcalls, ssp, slots, refcount, released, alloc, scancpu, nested>>

\* A decrement to zero that calls the release callback without scanning.
DecNoScan(t, n) ==
    LET r == refcount_dec_and_test(refcount[n]) IN
    /\ refcount' = [refcount EXCEPT ![n] = r.val]
    /\ pc' = [pc EXCEPT ![t] = IF r.zero THEN "release" ELSE Idle]
    /\ spn' = [spn EXCEPT ![t] = IF r.zero THEN n ELSE NULL]
    /\ UNCHANGED scancpu

\* A decrement that scans and releases whatever the count it reached.
DecAndScanAlways(t, n) ==
    LET r == refcount_dec_and_test(refcount[n]) IN
    /\ refcount' = [refcount EXCEPT ![n] = r.val]
    /\ pc' = [pc EXCEPT ![t] = "scan"]
    /\ spn' = [spn EXCEPT ![t] = n]
    /\ scancpu' = [scancpu EXCEPT ![t] = 1]

\* if (refcount_dec_and_test(&spn->refcount)) { hazptr_scan(domain, spn, NULL); ... }
DecAndScan(t, n) ==
    LET r == refcount_dec_and_test(refcount[n]) IN
    /\ refcount' = [refcount EXCEPT ![n] = r.val]
    /\ IF r.zero
       THEN /\ pc' = [pc EXCEPT ![t] = "scan"]
            /\ spn' = [spn EXCEPT ![t] = n]
            /\ scancpu' = [scancpu EXCEPT ![t] = 1]
       ELSE /\ pc' = [pc EXCEPT ![t] = Idle]
            /\ spn' = [spn EXCEPT ![t] = NULL]
            /\ UNCHANGED scancpu

\* sharedptr_delete(sp, release): WRITE_ONCE(sp->spn, NULL); refcount_dec_and_test ...
sharedptr_delete(t) ==
    /\ pc[t] = "idle"
    /\ \E n \in Nodes :
        /\ held[t][n] > 0
        /\ held' = [held EXCEPT ![t][n] = @ - 1]
        /\ DecAndScan(t, n)
    /\ UNCHANGED <<rsvars, api, oneshot, slots2, proto, cbcalls, ssp, slots, released, alloc, cpu, addr, addr2,
                   nested, loadslot>>

\* A syncsharedptr_delete that leaves the node published while it decrements.
SdelNoClear(t) ==
    /\ t = Writer
    /\ pc[t] = "idle"
    /\ spn' = [spn EXCEPT ![t] = ssp]
    /\ pc' = [pc EXCEPT ![t] = IF ssp = NULL THEN Idle ELSE "sdel_dec"]
    /\ UNCHANGED <<hzvars, refcount, alloc, held, ssp>>

\* syncsharedptr_delete(ssp, release): spn = ssp->spn; if (!spn) return;
\* WRITE_ONCE(ssp->spn, NULL);  Only the single updater writes ssp->spn, so the
\* value it reads is the one it overwrites.
SdelClear(t) ==
    /\ t = Writer
    /\ pc[t] = "idle"
    /\ spn' = [spn EXCEPT ![t] = ssp]
    /\ ssp' = NULL
    /\ pc' = [pc EXCEPT ![t] = IF ssp = NULL THEN Idle ELSE "sdel_dec"]
    /\ UNCHANGED <<hzvars, refcount, alloc, held>>

\* syncsharedptr_delete: if (refcount_dec_and_test(&spn->refcount)) { scan; release }
SdelDec(t) ==
    /\ pc[t] = "sdel_dec"
    /\ DecAndScan(t, spn[t])
    /\ UNCHANGED <<rsvars, api, oneshot, slots2, proto, cbcalls, ssp, slots, released, alloc, held, cpu, addr,
                   addr2, nested, loadslot>>

Init ==
    /\ TypeInit
    /\ api = "hazptr"
    /\ oneshot = FALSE
    /\ ssp = NULL
    /\ alloc = {}
    /\ refcount = [n \in Nodes |-> 0]

\* sharedptr_copy_from_sync(ssp)
CopyFromSync(t) ==
    \/ LtpBegin(t)
    \/ LtpProtect(t, "cfs_end")
    \/ LtpReload(t, "cfs_inc", "cfs_end")
    \/ LtpClear(t, "cfs_end")
    \/ CfsInc(t)
    \/ HazptrRelease(t, "cfs_release", "cfs_end")
    \/ CfsEnd(t)

\* syncsharedptr_delete(ssp, release) and sharedptr_delete(sp, release)
Delete(t) ==
    \/ SdelClear(t)
    \/ SdelDec(t)
    \/ sharedptr_delete(t)
    \/ ScanStep(t)
    \/ Release(t)

Next ==
    \/ \E t \in Threads : sharedptr_create(t)
    \/ \E t \in Threads : sharedptr_copy(t)
    \/ \E t \in Threads : sharedptr_move_to_sync(t)
    \/ \E t \in Threads : CtsInc(t) \/ CtsPublish(t)
    \/ \E t \in Readers : CopyFromSync(t)
    \/ \E t \in Threads : Delete(t)

Spec == Init /\ [][Next]_vars

-----------------------------------------------------------------------------
(* Scenario A: node 1 has count 1 and is owned by the syncsharedptr alone   *)
(* (after sharedptr_create and sharedptr_move_to_sync); thread X runs one   *)
(* syncsharedptr_delete while thread Y runs one sharedptr_copy_from_sync.   *)

X == Writer
Y == 2

InitA ==
    /\ TypeInit
    /\ api = "hazptr"
    /\ oneshot = TRUE
    /\ ssp = 1
    /\ alloc = {1}
    /\ refcount = [n \in Nodes |-> IF n = 1 THEN 1 ELSE 0]

NextA ==
    \/ SdelClear(X)
    \/ SdelDec(X)
    \/ ScanStep(X)
    \/ Release(X)
    \/ CopyFromSync(Y)

SpecA == InitA /\ [][NextA]_vars

-----------------------------------------------------------------------------
(* hpref: hazard pointer protected reference counters.  ssp is the pointer *)
(* *node_p the readers dereference, slots are hpref_percpu_slots, held     *)
(* counts the references a thread got from hpref_hp_refcount_inc.          *)

hpvars == <<rsvars, api, oneshot, slots2, proto, cbcalls, nested, alloc>>

\* hpref_hp_refcount_inc: guard(preempt)(); hpref_hp_acquire: addr = READ_ONCE(*addr_p);
\* if (!addr) return hp with hp.addr = NULL, and the caller returns NULL.
HprefBegin(t) ==
    /\ pc[t] = "h_idle"
    /\ HeldBy(t) < MaxHeld
    /\ \E c \in FreeCPUs :
        /\ cpu' = [cpu EXCEPT ![t] = c]
        /\ loadslot' = [loadslot EXCEPT ![t] = slots[c]]
    /\ addr' = [addr EXCEPT ![t] = ssp]
    /\ pc' = [pc EXCEPT ![t] = IF ssp = NULL THEN "h_end" ELSE "h_store"]
    /\ UNCHANGED <<hpvars, ssp, slots, refcount, released, held, addr2, spn, scancpu>>

\* retry: slot = this_cpu_ptr(&hpref_percpu_slots); WRITE_ONCE(slot->addr, addr);
HprefStore(t) ==
    /\ pc[t] = "h_store"
    /\ slots' = [slots EXCEPT ![cpu[t]] = addr[t]]
    /\ pc' = [pc EXCEPT ![t] = "h_reload"]
    /\ UNCHANGED <<hpvars, ssp, refcount, released, held, cpu, addr, addr2, spn,
                   scancpu, loadslot>>

\* smp_mb(); addr2 = rcu_access_pointer(*addr_p); if (!ptr_eq(addr2, addr)) ...
\* else hp.addr = addr2; the caller returns NULL when hp.addr is NULL.
HprefReload(t) ==
    /\ pc[t] = "h_reload"
    /\ addr2' = [addr2 EXCEPT ![t] = ssp]
    /\ loadslot' = [loadslot EXCEPT ![t] = slots[cpu[t]]]
    /\ IF ptr_eq(ssp, addr[t])
       THEN /\ pc' = [pc EXCEPT ![t] = IF ssp = NULL THEN "h_end" ELSE "h_inc"]
            /\ addr' = [addr EXCEPT ![t] = NULL]
       ELSE /\ pc' = [pc EXCEPT ![t] = "h_clear"]
            /\ UNCHANGED addr
    /\ UNCHANGED <<hpvars, ssp, slots, refcount, released, held, cpu, spn, scancpu>>

\* WRITE_ONCE(slot->addr, NULL); if (!addr2) return (NULL); addr = addr2; goto retry;
HprefClear(t) ==
    /\ pc[t] = "h_clear"
    /\ slots' = [slots EXCEPT ![cpu[t]] = NULL]
    /\ IF addr2[t] = NULL
       THEN /\ pc' = [pc EXCEPT ![t] = "h_end"]
            /\ addr' = [addr EXCEPT ![t] = NULL]
       ELSE /\ pc' = [pc EXCEPT ![t] = "h_store"]
            /\ addr' = [addr EXCEPT ![t] = addr2[t]]
    /\ addr2' = [addr2 EXCEPT ![t] = NULL]
    /\ UNCHANGED <<hpvars, ssp, refcount, released, held, cpu, spn, scancpu, loadslot>>

\* A promotion that returns the node without counting the reference.
HprefIncNone(t) ==
    /\ pc[t] = "h_inc"
    /\ spn' = [spn EXCEPT ![t] = addr2[t]]
    /\ pc' = [pc EXCEPT ![t] = "h_release"]
    /\ UNCHANGED <<hpvars, ssp, slots, refcount, released, held, cpu, addr, addr2,
                   scancpu, loadslot>>

\* hpref_hp_refcount_inc: refcount_inc(&node->refcount);  On a node whose
\* release callback has run the increment writes to freed memory, which
\* holds no count any more; the node is returned all the same.
HprefInc(t) ==
    /\ pc[t] = "h_inc"
    /\ IF released[addr2[t]] > 0
       THEN UNCHANGED refcount
       ELSE refcount' = [refcount EXCEPT ![addr2[t]] = refcount_inc(@)]
    /\ spn' = [spn EXCEPT ![t] = addr2[t]]
    /\ pc' = [pc EXCEPT ![t] = "h_release"]
    /\ UNCHANGED <<hpvars, ssp, slots, released, held, cpu, addr, addr2, scancpu,
                   loadslot>>

\* hpref_hp_release(hp): smp_store_release(&hp.slot->addr, NULL);
HprefHpRelease(t) ==
    /\ pc[t] = "h_release"
    /\ slots' = [slots EXCEPT ![cpu[t]] = NULL]
    /\ pc' = [pc EXCEPT ![t] = "h_end"]
    /\ addr2' = [addr2 EXCEPT ![t] = NULL]
    /\ loadslot' = [loadslot EXCEPT ![t] = NULL]
    /\ UNCHANGED <<hpvars, ssp, refcount, released, held, cpu, addr, spn, scancpu>>

\* return node; the scope of guard(preempt)() ends.
HprefEnd(t) ==
    /\ pc[t] = "h_end"
    /\ held' = [held EXCEPT ![t] =
                  [n \in Nodes |-> IF n = spn[t] THEN @[n] + 1 ELSE @[n]]]
    /\ pc' = [pc EXCEPT ![t] = "h_idle"]
    /\ cpu' = [cpu EXCEPT ![t] = 0]
    /\ addr' = [addr EXCEPT ![t] = NULL]
    /\ addr2' = [addr2 EXCEPT ![t] = NULL]
    /\ spn' = [spn EXCEPT ![t] = NULL]
    /\ loadslot' = [loadslot EXCEPT ![t] = NULL]
    /\ UNCHANGED <<hpvars, ssp, slots, refcount, released, scancpu>>

\* hpref_hp_refcount_inc(node_p)
HprefHpRefcountInc(t) ==
    \/ HprefBegin(t)
    \/ HprefStore(t)
    \/ HprefReload(t)
    \/ HprefClear(t)
    \/ HprefInc(t)
    \/ HprefHpRelease(t)
    \/ HprefEnd(t)

\* A decrement that calls the release callback whatever count it reached.
HprefDecAlways(t, n) ==
    LET r == refcount_dec_and_test(refcount[n]) IN
    /\ refcount' = [refcount EXCEPT ![n] = r.val]
    /\ pc' = [pc EXCEPT ![t] = "h_free"]
    /\ spn' = [spn EXCEPT ![t] = n]

\* hpref_refcount_dec(node): if (refcount_dec_and_test(&node->refcount)) hpref_release(node);
\* On a node whose release callback has run, the test reads freed memory and
\* can come out either way.
HprefDec(t, n) ==
    IF released[n] > 0
    THEN /\ UNCHANGED refcount
         /\ \E zero \in BOOLEAN :
              /\ pc' = [pc EXCEPT ![t] = IF zero THEN "h_free" ELSE "h_idle"]
              /\ spn' = [spn EXCEPT ![t] = IF zero THEN n ELSE NULL]
    ELSE LET r == refcount_dec_and_test(refcount[n]) IN
         /\ refcount' = [refcount EXCEPT ![n] = r.val]
         /\ pc' = [pc EXCEPT ![t] = IF r.zero THEN "h_free" ELSE "h_idle"]
         /\ spn' = [spn EXCEPT ![t] = IF r.zero THEN n ELSE NULL]

\* hpref_refcount_dec(node) on a reference the thread got from hpref_hp_refcount_inc.
hpref_refcount_dec(t) ==
    /\ pc[t] = "h_idle"
    /\ \E n \in Nodes :
        /\ held[t][n] > 0
        /\ held' = [held EXCEPT ![t][n] = @ - 1]
        /\ HprefDec(t, n)
    /\ UNCHANGED <<hpvars, ssp, slots, released, cpu, addr, addr2, scancpu, loadslot>>

\* hpref_release(node): node->release(node);
hpref_release(t) ==
    /\ pc[t] = "h_free"
    /\ released' = [released EXCEPT ![spn[t]] = @ + 1]
    /\ pc' = [pc EXCEPT ![t] = "h_idle"]
    /\ spn' = [spn EXCEPT ![t] = NULL]
    /\ UNCHANGED <<hpvars, ssp, slots, refcount, held, cpu, addr, addr2, scancpu,
                   loadslot>>

\* The updater replaces the published node: the new node, if any, comes from
\* hpref_node_init (refcount_set(&node->refcount, 1)).  It then owes the old
\* node a hpref_synchronize and the hpref_refcount_dec of its initial
\* reference; an updater that does not keep to the protocol may leave out
\* the hpref_synchronize.
HprefUnpublish(t) ==
    /\ t = Writer
    /\ pc[t] = "h_idle"
    /\ \E new \in Fresh \cup {NULL} :
        /\ new # ssp
        /\ ssp' = new
        /\ alloc' = alloc \cup (IF new = NULL THEN {} ELSE {new})
        /\ refcount' = [n \in Nodes |-> IF n = new THEN 1 ELSE refcount[n]]
    /\ IF ssp = NULL
       THEN UNCHANGED <<pc, spn, scancpu>>
       ELSE /\ spn' = [spn EXCEPT ![t] = ssp]
            /\ \E sync \in {TRUE, proto} :
                /\ pc' = [pc EXCEPT ![t] = IF sync THEN "h_sync" ELSE "h_dec"]
                /\ scancpu' = [scancpu EXCEPT ![t] = IF sync THEN 1 ELSE 0]
    /\ UNCHANGED <<rsvars, api, oneshot, slots2, proto, cbcalls, nested, slots, released, held, cpu,
                   addr, addr2, loadslot>>

\* A hpref_synchronize that does not look at the slots.
HprefSyncNoWait(t) ==
    /\ pc[t] = "h_sync"
    /\ scancpu[t] \in CPUs
    /\ scancpu' = [scancpu EXCEPT ![t] = IF @ = NCPU THEN 0 ELSE @ + 1]
    /\ pc' = [pc EXCEPT ![t] = IF scancpu[t] = NCPU THEN "h_dec" ELSE "h_sync"]
    /\ UNCHANGED <<hpvars, ssp, slots, refcount, released, held, cpu, addr, addr2,
                   spn, loadslot>>

\* hpref_synchronize(node): for_each_possible_cpu(cpu)
\*     while (smp_load_acquire(&slot->node) == node) cpu_relax();
hpref_synchronize(t) ==
    /\ pc[t] = "h_sync"
    /\ scancpu[t] \in CPUs
    /\ slots[scancpu[t]] # spn[t]
    /\ scancpu' = [scancpu EXCEPT ![t] = IF @ = NCPU THEN 0 ELSE @ + 1]
    /\ pc' = [pc EXCEPT ![t] = IF scancpu[t] = NCPU THEN "h_dec" ELSE "h_sync"]
    /\ UNCHANGED <<hpvars, ssp, slots, refcount, released, held, cpu, addr, addr2,
                   spn, loadslot>>

\* hpref_refcount_dec(node) for the initial reference of the unpublished node.
HprefDecInitial(t) ==
    /\ pc[t] = "h_dec"
    /\ HprefDec(t, spn[t])
    /\ UNCHANGED <<hpvars, ssp, slots, released, held, cpu, addr, addr2, scancpu,
                   loadslot>>

InitH ==
    /\ api = "hpref"
    /\ oneshot = FALSE
    /\ proto \in BOOLEAN
    /\ ssp = 1
    /\ alloc = {1}
    /\ refcount = [n \in Nodes |-> IF n = 1 THEN 1 ELSE 0]
    /\ slots = [c \in CPUs |-> NULL]
    /\ released = [n \in Nodes |-> 0]
    /\ held = [t \in Threads |-> [n \in Nodes |-> 0]]
    /\ pc = [t \in Threads |-> "h_idle"]
    /\ cpu = [t \in Threads |-> 0]
    /\ addr = [t \in Threads |-> NULL]
    /\ addr2 = [t \in Threads |-> NULL]
    /\ spn = [t \in Threads |-> NULL]
    /\ scancpu = [t \in Threads |-> 0]
    /\ nested = [t \in Threads |-> "none"]
    /\ loadslot = [t \in Threads |-> NULL]
    /\ cbcalls = [c \in CPUs |-> 0]
    /\ slots2 = [c \in CPUs |-> NULL]
    /\ owner = NULL
    /\ testvar = 0
    /\ rpc = [t \in Threads |-> "lock"]
    /\ expected = [t \in Threads |-> NULL]
    /\ busy = [t \in Threads |-> 0]
    /\ iter = [t \in Threads |-> 0]

NextH ==
    \/ \E t \in Readers : HprefHpRefcountInc(t)
    \/ \E t \in Readers : hpref_refcount_dec(t)
    \/ \E t \in Threads : hpref_release(t)
    \/ HprefUnpublish(Writer)
    \/ hpref_synchronize(Writer)
    \/ HprefDecInitial(Writer)

SpecH == InitH /\ [][NextH]_vars

-----------------------------------------------------------------------------
(* The two promotions side by side: a run uses either the sharedptr        *)
(* operations or the hpref operations.                                     *)

InitP == Init \/ InitH

NextP ==
    \/ Next
    \/ NextH

SpecP == InitP /\ [][NextP]_vars

-----------------------------------------------------------------------------
(* Properties of the sharedptr operations (Spec).                          *)

\* t holds a validated hazard pointer on n: load_try_protect returned n and
\* the slot has not been passed to hazptr_release yet.
HazardHandle(t, n) ==
    /\ pc[t] \in {"cfs_inc", "cfs_release", "hold"}
    /\ addr2[t] = n

\* t holds a counted reference on n: a non-empty sharedptr, or the one that
\* sharedptr_copy_from_sync is about to return.
CountedRef(t, n) ==
    \/ held[t][n] > 0
    \/ pc[t] \in {"cfs_release", "cfs_end"} /\ spn[t] = n

\* C1: existence guarantee.  While a thread holds an unreleased validated
\* hazard handle or a counted reference on a node, the node's release
\* callback has not been invoked.
C1_Existence ==
    \A t \in Threads : \A n \in Nodes :
        (HazardHandle(t, n) \/ CountedRef(t, n)) => released[n] = 0

\* A reader still holds its hazard pointer on n after losing the promotion
\* race, while the deleting thread busy-waits on that reader's slot.
C1_Witness ==
    \E t \in Readers : \E u \in Threads : \E n \in Nodes :
        /\ pc[t] = "cfs_release" /\ addr2[t] = n /\ spn[t] = NULL
        /\ pc[u] = "scan" /\ spn[u] = n
        /\ scancpu[u] = cpu[t] /\ slots[cpu[t]] = n

\* C2: every invocation of the release callback on a node comes after a
\* decrement that brought the count to zero and after a blocking scan of the
\* node's address that went over every per-CPU slot, each slot having been
\* seen to differ from the address; the count is zero from the start of the
\* scan to the callback.
C2_ReleaseAfterZeroAndScan ==
    /\ [](\A t \in Threads :
            pc[t] \in {"scan", "release"} => refcount[spn[t]] = 0)
    /\ [][\A t \in Threads :
            (pc[t] = "scan" /\ scancpu'[t] # scancpu[t])
                => slots[scancpu[t]] # spn[t] /\ scancpu'[t] = scancpu[t] + 1]_vars
    /\ [][\A n \in Nodes :
            released'[n] # released[n]
                => /\ refcount[n] = 0
                   /\ \E t \in Threads :
                        /\ pc[t] = "release" /\ pc'[t] # "release"
                        /\ spn[t] = n
                        /\ scancpu[t] = NCPU + 1]_vars

\* A reader's sharedptr_delete has brought a count to zero, has scanned all
\* slots and is about to call the release callback.
C2_Witness ==
    \E t \in Readers :
        /\ pc[t] = "release"
        /\ scancpu[t] = NCPU + 1
        /\ refcount[spn[t]] = 0

\* No handle references n and no operation on n is in progress.
Unreferenced(n) ==
    /\ ssp # n
    /\ \A t \in Threads : held[t][n] = 0 /\ spn[t] # n /\ addr2[t] # n

\* C3: exactly-once release.  At most one decrement of a node observes
\* zero, the release callback runs at most once, and it has run once when
\* every handle on the node has been deleted.
C3_ExactlyOnce ==
    \A n \in Nodes :
        /\ released[n] <= 1
        /\ Cardinality({t \in Threads : pc[t] \in {"scan", "release"} /\ spn[t] = n})
             + released[n] <= 1
        /\ (n \in alloc /\ Unreferenced(n)) => released[n] = 1

\* Both nodes have been released once, all their handles having been deleted.
C3_Witness ==
    \A n \in {1, 2} :
        n \in alloc /\ Unreferenced(n) /\ released[n] = 1 /\ refcount[n] = 0

\* C5: sharedptr_copy_from_sync racing with syncsharedptr_delete returns
\* either an empty sharedptr or one to a node whose release callback has not
\* run at the return, and does not run while the caller holds the result.
C5_CopyFromSyncSafe ==
    /\ [](\A t \in Readers :
            (pc[t] = "cfs_end" /\ spn[t] # NULL)
                => released[spn[t]] = 0 /\ refcount[spn[t]] >= 1)
    /\ [][\A n \in Nodes :
            released'[n] # released[n]
                => \A t \in Readers :
                     held[t][n] = 0 /\ ~(pc[t] = "cfs_end" /\ spn[t] = n)]_vars

\* A reader returns a non-empty sharedptr while syncsharedptr_delete has
\* cleared the syncsharedptr and is about to decrement the same node.
C5_Witness ==
    \E t \in Readers :
        /\ pc[t] = "cfs_end" /\ spn[t] # NULL
        /\ pc[Writer] = "sdel_dec" /\ spn[Writer] = spn[t]
        /\ ssp = NULL

-----------------------------------------------------------------------------
(* Scenario A (SpecA).                                                     *)

DoneA == pc[X] = "done" /\ pc[Y] = "done"

\* C6: Scenario A ends in one of two outcomes: Y holds a sharedptr to node 1,
\* the count went 1 -> 2 -> 1 and the release callback did not run; or Y
\* holds an empty sharedptr, the count is 0 and the release callback ran
\* once.  Y never has a non-empty result on a released node, and the two
\* calls always run to their end.
C6_ScenarioA ==
    /\ [](DoneA =>
            \/ held[Y][1] = 1 /\ refcount[1] = 1 /\ released[1] = 0
            \/ held[Y][1] = 0 /\ refcount[1] = 0 /\ released[1] = 1)
    /\ []((held[Y][1] > 0 \/ (pc[Y] = "cfs_end" /\ spn[Y] = 1)) => released[1] = 0)
    /\ [](DoneA \/ ENABLED NextA)
    /\ [][refcount'[1] # refcount[1]
            => <<refcount[1], refcount'[1]>> \in {<<1, 2>>, <<2, 1>>, <<1, 0>>}]_vars

\* Outcome (i): Y won the race against the delete.
C6_Witness ==
    /\ DoneA
    /\ held[Y][1] = 1 /\ refcount[1] = 1 /\ released[1] = 0 /\ ssp = NULL

-----------------------------------------------------------------------------
(* Properties of the bare hazard pointer protocol (SpecB, SpecBFair).      *)

\* C4: protect/scan handshake.  The retirer overwrites the published pointer,
\* scans for the old address and frees it.  No reader holds the old address
\* as a revalidated, unreleased protection when it is freed or afterwards,
\* and a load_try_protect that returns an address returns the one its
\* revalidation load found published, which has not been freed.
C4_Handshake ==
    /\ [](\A t \in Readers : \A a \in Nodes :
            (pc[t] = "hold" /\ addr2[t] = a) => released[a] = 0)
    /\ [][\A t \in Readers :
            (pc[t] = "ltp_reload" /\ pc'[t] = "hold")
                => addr2'[t] = ssp /\ ssp # NULL /\ released'[ssp] = 0]_vars
    /\ [][\A t \in Readers :
            (pc[t] = "ltp_reload" /\ pc'[t] # pc[t] /\ ssp # addr[t])
                => pc'[t] = "ltp_clear" /\ addr2'[t] = ssp]_vars

\* The retirer busy-waits on the slot of a reader that holds the retired
\* address as a revalidated protection.
C4_Witness ==
    \E t \in Readers :
        /\ pc[t] = "hold" /\ addr2[t] = 1
        /\ ssp = 2
        /\ pc[Writer] = "scan" /\ spn[Writer] = 1
        /\ scancpu[Writer] = cpu[t] /\ slots[cpu[t]] = 1

\* C7: scan termination.  With the address unpublished and every reader
\* section bounded, a blocking scan returns; a scan whose current slot
\* differs from the address can take its next step.
C7_ScanTerminates ==
    /\ (pc[Writer] = "scan") ~> (pc[Writer] = "release")
    /\ []((pc[Writer] = "scan" /\ slots[scancpu[Writer]] # spn[Writer])
            => ENABLED ScanStep(Writer))

\* The scan waits on a slot that holds the address while another slot holds
\* a different address.
C7_Witness ==
    /\ pc[Writer] = "scan"
    /\ slots[scancpu[Writer]] = spn[Writer]
    /\ \E c \in CPUs : slots[c] \notin {NULL, spn[Writer]}

\* C8: reentrancy rejection.  A try_protect (hazptr_try_protect or
\* hp_allocate) on a CPU whose slot holds a non-null address fails and
\* leaves the slot as it was.
C8_ReentrancyRejected ==
    [][\A t \in Readers :
        (pc[t] = "hold" /\ slots[cpu[t]] # NULL /\ nested'[t] # nested[t])
            => nested'[t] = "fail" /\ slots' = slots]_vars

\* A reader's second try_protect has failed and its slot still holds the
\* address it protected first.
C8_Witness ==
    \E t \in Readers :
        /\ pc[t] = "hold" /\ nested[t] = "fail"
        /\ slots[cpu[t]] = addr2[t] /\ addr2[t] # NULL

\* C9: when load_try_protect returns a non-null address, the CPU's slot
\* holds that address and the address was read from the source by a load
\* made while the slot already held it.  When the revalidation load differs,
\* the slot is cleared and the call retries with the value read, or returns
\* NULL when that value is NULL.
C9_LoadTryProtect ==
    /\ [](\A t \in Readers :
            pc[t] = "hold"
                => /\ addr2[t] # NULL
                   /\ slots[cpu[t]] = addr2[t]
                   /\ loadslot[t] = addr2[t])
    /\ [][\A t \in Readers :
            (pc[t] = "ltp_reload" /\ pc'[t] # pc[t])
                => IF ssp = slots[cpu[t]]
                   THEN pc'[t] = "hold" /\ addr2'[t] = ssp
                   ELSE pc'[t] = "ltp_clear"]_vars
    /\ [][\A t \in Readers :
            (pc[t] = "ltp_clear" /\ pc'[t] # pc[t])
                => /\ slots'[cpu[t]] = NULL
                   /\ IF addr2[t] = NULL
                      THEN pc'[t] = "rd_end"
                      ELSE pc'[t] = "ltp_protect" /\ addr'[t] = addr2[t]]_vars

\* One reader holds a revalidated address while another has failed its
\* revalidation and is about to retry with the new value.
C9_Witness ==
    \E t \in Readers : \E u \in Readers :
        /\ pc[t] = "hold" /\ slots[cpu[t]] = addr2[t]
        /\ pc[u] = "ltp_clear" /\ addr2[u] = 2 /\ slots[cpu[u]] = 1

\* C10 as stated: when a blocking scan returns, no slot holds the address.
C10_NoSlotHoldsAddr ==
    [][(pc[Writer] = "scan" /\ pc'[Writer] = "release")
        => \A c \in CPUs : slots'[c] # spn[Writer]]_vars

\* C10 amended: from the return of a blocking scan to the free, no slot holds
\* the address as a revalidated protection: a slot that holds it belongs to
\* a reader that loaded the address before it was unpublished, has stored it
\* and has not yet cleared it after the failing revalidation.
C10_NoValidatedSlot ==
    pc[Writer] = "release" =>
        \A c \in CPUs :
            slots[c] = spn[Writer] =>
                \E t \in Readers :
                    /\ cpu[t] = c
                    /\ pc[t] \in {"ltp_reload", "ltp_clear"}
                    /\ addr[t] = spn[Writer]
                    /\ ssp # spn[Writer]

\* The scan has returned and a reader that was late stores the address.
C10_Witness ==
    /\ pc[Writer] = "release"
    /\ \E c \in CPUs : slots[c] = spn[Writer]

-----------------------------------------------------------------------------
(* Properties of the scan with a callback (SpecC, SpecCFair).              *)

-----------------------------------------------------------------------------
(* Properties of hpref (SpecH).                                            *)

\* C13 as stated: the release callback of a node is invoked by a
\* hpref_refcount_dec that reached zero and then went over all hazard slots
\* in a blocking scan of its own.
C13_DecScansThenReleases ==
    [][\A n \in Nodes :
        (proto /\ released'[n] # released[n])
            => \E t \in Threads :
                 /\ pc[t] = "h_free" /\ spn[t] = n
                 /\ scancpu[t] = NCPU + 1]_vars

\* C13 amended: a hpref_refcount_dec that brings the count of a live node to
\* zero invokes the release callback as its next step, without a scan of its
\* own; one that leaves the count above zero returns and invokes nothing.
\* Every release of a live node comes from such a decrement to zero.
C13_DecReleasesDirectly ==
    /\ [][\A t \in Threads : \A n \in Nodes :
            (pc[t] \in {"h_idle", "h_dec"} /\ pc'[t] # pc[t]
             /\ refcount'[n] = refcount[n] - 1)
                => /\ scancpu'[t] = 0
                   /\ released' = released
                   /\ IF refcount'[n] = 0
                      THEN pc'[t] = "h_free" /\ spn'[t] = n
                      ELSE pc'[t] = "h_idle" /\ spn'[t] = NULL]_vars
    /\ [][\A t \in Threads :
            (pc[t] = "h_free" /\ pc'[t] # "h_free")
                => /\ released' = [released EXCEPT ![spn[t]] = @ + 1]
                   /\ slots' = slots /\ scancpu' = scancpu]_vars
    /\ [][\A n \in Nodes :
            (released[n] = 0 /\ released'[n] # 0)
                => /\ proto => refcount[n] = 0
                   /\ \E t \in Threads : pc[t] = "h_free" /\ spn[t] = n]_vars
    /\ [](\A t \in Threads : pc[t] = "h_free" => ENABLED hpref_release(t))

\* The last reference of a reader reached zero after the updater dropped the
\* initial reference: the reader is about to invoke the release callback.
C13_Witness ==
    \E t \in Readers :
        /\ proto
        /\ pc[t] = "h_free" /\ released[spn[t]] = 0 /\ refcount[spn[t]] = 0
        /\ \E u \in Readers : held[u][3 - spn[t]] > 0 /\ refcount[3 - spn[t]] = 2

\* C14: hpref usage protocol.  When the updater unpublishes a node, then
\* completes hpref_synchronize on it, then drops its initial reference, no
\* hpref_hp_refcount_inc increments a count that has reached zero or that
\* belongs to a released node, every reader that got a node holds a counted
\* reference on it and the node is not released while it does, and a node is
\* released at most once.
C14_UsageProtocol ==
    /\ [][\A t \in Readers :
            (proto /\ pc[t] = "h_inc" /\ pc'[t] # "h_inc")
                => /\ refcount[addr2[t]] >= 1
                   /\ released[addr2[t]] = 0
                   /\ refcount'[addr2[t]] = refcount[addr2[t]] + 1
                   /\ spn'[t] = addr2[t]]_vars
    /\ [](proto =>
            \A n \in Nodes :
                /\ released[n] <= 1
                /\ \A t \in Readers :
                    (held[t][n] > 0 \/ (pc[t] \in {"h_release", "h_end"} /\ spn[t] = n))
                        => released[n] = 0 /\ refcount[n] >= 1)
    /\ [](proto => (pc[Writer] = "h_dec" =>
            /\ ssp # spn[Writer]
            /\ \A t \in Readers : ~(pc[t] \in {"h_inc"} /\ addr2[t] = spn[Writer])))

\* The updater has unpublished node 1 and its hpref_synchronize waits on the
\* slot of a reader that has incremented the count and not yet released the
\* hazard pointer.
C14_Witness ==
    \E t \in Readers :
        /\ proto
        /\ pc[Writer] = "h_sync" /\ spn[Writer] = 1 /\ scancpu[Writer] = cpu[t]
        /\ pc[t] = "h_release" /\ spn[t] = 1 /\ refcount[1] = 2
        /\ slots[cpu[t]] = 1

\* C15: hpref_hp_refcount_inc returns a node only after one increment of
\* that node's count, made while the CPU's slot held the node's address and
\* a load of the location issued after the slot store had returned it.  It
\* returns NULL exactly when the location was read as NULL on entry or by a
\* revalidation load, and then it has changed no count.
C15_HpRefcountInc ==
    /\ [][\A t \in Readers :
            (pc[t] = "h_inc" /\ pc'[t] # "h_inc")
                => /\ addr2[t] # NULL
                   /\ slots[cpu[t]] = addr2[t] /\ loadslot[t] = addr2[t]
                   /\ spn'[t] = addr2[t] /\ pc'[t] = "h_release"
                   /\ released[addr2[t]] = 0
                        => refcount' = [refcount EXCEPT ![addr2[t]] = @ + 1]]_vars
    /\ [][\A t \in Readers :
            (pc[t] = "h_idle" /\ pc'[t] \in {"h_store", "h_end"})
                => (pc'[t] = "h_end" <=> ssp = NULL)]_vars
    /\ [][\A t \in Readers :
            (pc[t] = "h_reload" /\ pc'[t] # "h_reload")
                => /\ (ssp = addr[t]) <=> (pc'[t] = "h_inc")
                   /\ (ssp # addr[t]) <=> (pc'[t] = "h_clear")]_vars
    /\ [][\A t \in Readers :
            (pc[t] = "h_clear" /\ pc'[t] # "h_clear")
                => /\ slots'[cpu[t]] = NULL
                   /\ (pc'[t] = "h_end") <=> (addr2[t] = NULL)
                   /\ (pc'[t] = "h_store") <=> (addr2[t] # NULL)]_vars
    /\ [][\A t \in Readers :
            (pc[t] # "h_end" /\ pc'[t] = "h_end")
                => IF pc[t] = "h_release"
                   THEN spn'[t] # NULL /\ slots'[cpu[t]] = NULL
                   ELSE /\ spn'[t] = NULL
                        /\ refcount' = refcount
                        /\ pc[t] = "h_idle" \/ pc[t] = "h_clear"]_vars
    /\ [][\A t \in Readers :
            (pc[t] \in {"h_store", "h_reload", "h_clear", "h_release", "h_end"}
             /\ pc'[t] # pc[t])
                => refcount' = refcount]_vars
    /\ [][\A t \in Readers : \A n \in Nodes :
            (pc[t] = "h_end" /\ pc'[t] # "h_end")
                => held'[t][n] = held[t][n] + (IF spn[t] = n THEN 1 ELSE 0)]_vars

\* One reader returns node 1 with the count raised from 1 to 2, while the
\* revalidation load of another has read NULL and makes it return NULL.
C15_Witness ==
    \E t \in Readers : \E u \in Readers :
        /\ pc[t] = "h_end" /\ spn[t] = 1 /\ refcount[1] = 2
        /\ pc[u] = "h_clear" /\ addr2[u] = NULL /\ slots[cpu[u]] = 1

-----------------------------------------------------------------------------
(* Properties of both promotions (SpecP).                                  *)

\* C16 as stated: a promotion (sharedptr_copy_from_sync or
\* hpref_hp_refcount_inc) that finds the count of its node at zero returns
\* NULL / empty and leaves the count at zero.
C16_ZeroCountPromotionFails ==
    [][\A t \in Readers :
        (pc[t] \in {"cfs_inc", "h_inc"} /\ pc'[t] # pc[t]
         /\ released[addr2[t]] = 0 /\ refcount[addr2[t]] = 0)
            => spn'[t] = NULL /\ refcount' = refcount]_vars

\* C16 amended: sharedptr_copy_from_sync finds a count of zero, returns an
\* empty sharedptr and leaves the count at zero.  hpref_hp_refcount_inc has
\* no such failure: it increments and returns the node whatever the count,
\* and the count is at least one at its increment when the updater completes
\* hpref_synchronize before dropping the initial reference; only without
\* that does a count of zero get raised.
C16_PromotionAtZero ==
    /\ [][\A t \in Readers :
            (pc[t] = "cfs_inc" /\ pc'[t] # pc[t]
             /\ released[addr2[t]] = 0 /\ refcount[addr2[t]] = 0)
                => spn'[t] = NULL /\ refcount' = refcount]_vars
    /\ [][\A t \in Readers :
            (pc[t] = "h_inc" /\ pc'[t] # pc[t])
                => /\ spn'[t] = addr2[t] /\ addr2[t] # NULL
                   /\ proto => refcount[addr2[t]] >= 1 /\ released[addr2[t]] = 0]_vars
    /\ [][\A n \in Nodes :
            (n \in alloc /\ refcount[n] = 0 /\ refcount'[n] # 0)
                => /\ ~proto
                   /\ \E t \in Readers : pc[t] = "h_inc" /\ addr2[t] = n]_vars

\* A sharedptr_copy_from_sync has found the count at zero: it holds the
\* hazard pointer, its result is empty and the count is still zero.
C16_Witness ==
    \E t \in Readers :
        /\ pc[t] = "cfs_release" /\ spn[t] = NULL
        /\ addr2[t] # NULL /\ refcount[addr2[t]] = 0 /\ released[addr2[t]] = 0
        /\ slots[cpu[t]] = addr2[t]

\* Reader t is inside a promotion for which it has loaded the address n from
\* the published location and has not yet incremented the count.
PendingPromotion(t, n) ==
    \/ pc[t] \in {"ltp_protect", "ltp_reload", "h_store", "h_reload"} /\ addr[t] = n
    \/ pc[t] \in {"cfs_inc", "h_inc"} /\ addr2[t] = n

\* A decrement has brought the count of n to zero (and n is not released yet).
ReachedZero(n) ==
    \E u \in Threads : pc[u] \in {"scan", "release", "h_free"} /\ spn[u] = n

\* C17 as stated: no promotion that loaded the address before it was
\* unpublished is still pending when the decrement of the deleting thread
\* reaches zero.  (A node whose count reached zero is not published again,
\* so every load that returned it came before its unpublication.)
C17_NoPendingPromotionAtZero ==
    \A n \in Nodes :
        (proto /\ ReachedZero(n)) => \A t \in Readers : ~PendingPromotion(t, n)

\* C17 amended: a promotion that loaded the address before it was
\* unpublished and is still pending once the decrement has reached zero
\* never increments the count: the count stays at zero until the release,
\* a sharedptr_copy_from_sync returns empty, a hpref_hp_refcount_inc in
\* that position has not revalidated and its revalidation load will differ.
\* The node is not released while a promotion holds it revalidated.
C17_PendingPromotionFails ==
    /\ [][\A n \in Nodes :
            (proto /\ n \in alloc /\ refcount[n] = 0) => refcount'[n] = 0]_vars
    /\ [](\A n \in Nodes :
            (proto /\ ReachedZero(n))
                => /\ ssp # n
                   /\ refcount[n] = 0
                   /\ \A t \in Readers :
                        /\ ~(pc[t] = "h_inc" /\ addr2[t] = n)
                        /\ (pc[t] = "cfs_inc" /\ addr2[t] = n)
                             => \E u \in Threads : pc[u] = "scan" /\ spn[u] = n)
    /\ [][\A t \in Readers :
            (proto /\ pc[t] = "cfs_inc" /\ pc'[t] # pc[t] /\ ReachedZero(addr2[t]))
                => spn'[t] = NULL]_vars
    /\ [](\A t \in Readers : \A n \in Nodes :
            (proto /\ pc[t] \in {"cfs_inc", "h_inc"} /\ addr2[t] = n)
                => released[n] = 0)

\* The decrement of syncsharedptr_delete has reached zero and is scanning
\* while a sharedptr_copy_from_sync that loaded the node before it was
\* unpublished holds the hazard pointer and has not promoted yet.
C17_Witness ==
    \E t \in Readers : \E n \in Nodes :
        /\ pc[t] = "cfs_inc" /\ addr2[t] = n
        /\ pc[Writer] = "scan" /\ spn[Writer] = n
        /\ refcount[n] = 0 /\ ssp = NULL

-----------------------------------------------------------------------------
(* try_protect on a NULL address (SpecB).                                  *)

\* C18 as stated: try_protect called with a NULL address returns true and
\* leaves the slot of the calling CPU unchanged.
C18_NullProtectSucceeds ==
    [][\A t \in Readers :
        (pc[t] = "ltp_protect" /\ addr[t] = NULL /\ pc'[t] # pc[t])
            => /\ TryProtect(slots[cpu[t]], NULL).ok
               /\ pc'[t] = "ltp_reload"
               /\ slots' = slots]_vars

\* C18 amended: try_protect (hazptr_try_protect, hp_allocate) called with a
\* NULL address fails and leaves the slot of the calling CPU unchanged,
\* whatever the slot holds; load_try_protect then returns NULL.
C18_NullProtectFails ==
    /\ [][\A t \in Readers :
            (pc[t] = "ltp_protect" /\ addr[t] = NULL /\ pc'[t] # pc[t])
                => /\ ~TryProtect(slots[cpu[t]], NULL).ok
                   /\ pc'[t] = "rd_end"
                   /\ slots' = slots]_vars
    /\ [](\A s \in Addrs :
            /\ hazptr_try_protect(s, NULL) = [ok |-> FALSE, slot |-> s]
            /\ hp_allocate(s, NULL) = [ok |-> FALSE, slot |-> s])

\* A reader has loaded NULL from the published pointer and is about to call
\* try_protect with it, on a CPU whose slot is empty.
C18_Witness ==
    \E t \in Readers :
        /\ pc[t] = "ltp_protect" /\ addr[t] = NULL
        /\ slots[cpu[t]] = NULL /\ ssp = NULL
        /\ \E u \in Readers : pc[u] = "rd_end" /\ cpu[u] # 0

-----------------------------------------------------------------------------
(* More properties of the sharedptr operations (Spec).                     *)

\* Number of references to n that exist or are being handed over: the
\* syncsharedptr, the sharedptr of every thread, the result a
\* sharedptr_copy_from_sync is returning, the reference a
\* sharedptr_copy_to_sync is publishing and the one a syncsharedptr_delete
\* has taken out and is about to drop.
RefsTo(n) ==
    (IF ssp = n THEN 1 ELSE 0)
    + SumOver([t \in Threads |-> held[t][n]], Threads)
    + Cardinality({t \in Threads :
                     pc[t] \in {"cfs_release", "cfs_end", "cts_pub", "sdel_dec"}
                     /\ spn[t] = n})

C20_MoveToSync ==
    /\ [][(pc[Writer] = "idle" /\ ssp = NULL /\ ssp' # NULL)
            => /\ held[Writer][ssp'] > 0
               /\ held' = [held EXCEPT ![Writer][ssp'] = @ - 1]
               /\ refcount' = refcount
               /\ released' = released /\ slots' = slots /\ alloc' = alloc
               /\ pc' = pc]_vars
    /\ [][\A t \in Threads : \A n \in Nodes :
            (pc[t] = "idle" /\ held[t][n] = 0
             /\ (pc'[t] # pc[t] \/ held'[t] # held[t]))
                => refcount'[n] >= refcount[n]]_vars
    /\ [](\A n \in Nodes :
            (ssp = n /\ released[n] = 0 /\ pc[Writer] = "idle"
             /\ \A t \in Threads : held[t][n] = 0 /\ spn[t] # n)
                => refcount[n] = 1)

\* After sharedptr_create and sharedptr_move_to_sync the syncsharedptr
\* publishes node 1 with count 1, and no thread has a sharedptr on it.
C20_Witness ==
    /\ ssp = 1 /\ refcount[1] = 1 /\ alloc = {1}
    /\ \A t \in Threads : pc[t] = "idle" /\ held[t][1] = 0

\* C22: node state machine.  The count of a node that has been created
\* never leaves zero once it has reached it, and a node enters Draining (a
\* decrement reached zero, its scan starts) at most once: no other thread is
\* scanning for it or about to release it, and it has not been released.
C22_ZeroIsFinal ==
    /\ [][\A n \in Nodes :
            (n \in alloc /\ refcount[n] = 0) => refcount'[n] = 0]_vars
    /\ [][\A t \in Threads : \A n \in Nodes :
            (pc[t] # "scan" /\ pc'[t] = "scan" /\ spn'[t] = n)
                => /\ refcount[n] = 1 /\ refcount'[n] = 0
                   /\ released[n] = 0
                   /\ \A u \in Threads :
                        ~(pc[u] \in {"scan", "release"} /\ spn[u] = n)]_vars

\* Node 1 has drained and is reclaimed, its count is zero, while node 2 is
\* published and a reader promotes it.
C22_Witness ==
    /\ refcount[1] = 0 /\ released[1] = 1
    /\ ssp = 2
    /\ \E t \in Readers : pc[t] = "cfs_release" /\ spn[t] = 2

\* C30: published implies live.  A node the syncsharedptr holds has a count
\* of at least one and has not been released; syncsharedptr_delete has
\* stored NULL into the syncsharedptr when it decrements.
C30_PublishedImpliesLive ==
    /\ [](\A n \in Nodes : ssp = n => refcount[n] >= 1 /\ released[n] = 0)
    /\ [](pc[Writer] = "sdel_dec" => ssp = NULL /\ spn[Writer] # NULL)
    /\ [][\A n \in Nodes :
            (ssp = n /\ refcount'[n] < refcount[n]) => refcount'[n] >= 1]_vars

\* syncsharedptr_delete has stored NULL and is about to take the count of
\* the node it unpublished from one to zero.
C30_Witness ==
    /\ pc[Writer] = "sdel_dec" /\ ssp = NULL
    /\ refcount[spn[Writer]] = 1
    /\ \E t \in Readers : pc[t] = "ltp_reload" /\ addr[t] = spn[Writer]

-----------------------------------------------------------------------------
(* Slot ownership (SpecC).                                                 *)

\* C26: every change of a per-CPU slot is made by a step of a thread that
\* runs on that CPU with preemption disabled (a protect store, the clear
\* after a failed revalidation, a release); the steps of a scan, in either
\* mode, change no slot and not the published pointer.
C26_SlotOwnership ==
    /\ [][\A c \in CPUs :
            slots'[c] # slots[c]
                => \E t \in Readers :
                     /\ cpu[t] = c /\ cpu'[t] = c
                     /\ \/ pc[t] = "ltp_protect" /\ slots'[c] = addr[t]
                        \/ pc[t] = "ltp_clear" /\ slots'[c] = NULL
                        \/ pc[t] = "hold" /\ slots'[c] = NULL
                     /\ pc'[t] # pc[t]]_vars
    /\ [][(pc[Writer] \in {"scan", "scan_cb", "scan_cb_ret"} /\ pc'[Writer] # "idle"
           /\ (scancpu'[Writer] # scancpu[Writer] \/ pc'[Writer] # pc[Writer]))
            => slots' = slots /\ ssp' = ssp]_vars
    /\ [](\A t \in Threads : \A u \in Threads :
            (t # u /\ cpu[t] # 0) => cpu[u] # cpu[t])
    /\ [](\A t \in Threads :
            (cpu[t] = 0) <=> (pc[t] \in {"idle", "scan", "scan_cb", "scan_cb_ret", "release"}))

\* A callback scan inspects the slot of a CPU on which a reader, with
\* preemption disabled, has stored the address and not yet revalidated it.
C26_Witness ==
    \E t \in Readers :
        /\ pc[Writer] = "scan_cb" /\ scancpu[Writer] = cpu[t]
        /\ pc[t] = "ltp_reload" /\ slots[cpu[t]] = spn[Writer]
        /\ \E u \in Readers : u # t /\ pc[u] = "hold" /\ slots[cpu[u]] = ssp

-----------------------------------------------------------------------------
(* The slot after a failed protection (SpecB).                             *)

\* C28: a load_try_protect (hp_dereference_allocate) starts on a CPU whose
\* slot is empty and, on each of its failing returns (NULL source, source
\* NULL at revalidation), leaves that slot empty; a try_protect that fails
\* on an occupied slot leaves the protected address in the slot; so no
\* reader section ends a failed acquisition with an address in its slot.
C28_FailureKeepsSlot ==
    /\ [](\A c \in FreeCPUs : slots[c] = NULL)
    /\ [](\A t \in Readers : pc[t] = "ltp_protect" => slots[cpu[t]] = NULL)
    /\ [][\A t \in Readers :
            (pc[t] \in {"ltp_protect", "ltp_reload", "ltp_clear"} /\ pc'[t] = "rd_end")
                => /\ slots'[cpu[t]] = NULL
                   /\ \A c \in CPUs : c # cpu[t] => slots'[c] = slots[c]]_vars
    /\ [][\A t \in Readers :
            (nested[t] = "none" /\ nested'[t] = "fail")
                => slots' = slots /\ slots[cpu[t]] \in alloc]_vars
    /\ [](\A t \in Readers : nested[t] # "ok")
    /\ [](\A t \in Readers : pc[t] = "rd_end" => slots[cpu[t]] = NULL)

\* One reader returned NULL after the clear of a failed revalidation and its
\* slot is empty, while another reader's second try_protect failed and its
\* slot still holds the protected address.
C28_Witness ==
    \E t \in Readers : \E u \in Readers :
        /\ t # u
        /\ pc[t] = "rd_end" /\ loadslot[t] # NULL /\ slots[cpu[t]] = NULL
        /\ pc[u] = "hold" /\ nested[u] = "fail" /\ slots[cpu[u]] # NULL

-----------------------------------------------------------------------------
(* hpref_hp_acquire on a CPU whose slot is occupied.                       *)

\* hpref_hp_acquire(addr_p) called, from an interrupt handler or by the
\* section itself, on the CPU of a thread that holds a hazard pointer it
\* has not released; *addr_p is a location other than the published
\* pointer and holds the address a of a node.
\*     slot = this_cpu_ptr(&hpref_percpu_slots);
\*     WARN_ON_ONCE(slot->addr);
\*     WRITE_ONCE(slot->addr, addr);
HprefNestedAcquire(t) ==
    /\ pc[t] = "h_release"
    /\ \E a \in Nodes : slots' = [slots EXCEPT ![cpu[t]] = a]
    /\ pc' = [pc EXCEPT ![t] = "hn_hold"]
    /\ UNCHANGED <<hpvars, ssp, refcount, released, held, cpu, addr, addr2, spn,
                   scancpu, loadslot>>

\* hpref_hp_release(hp) of the inner acquisition, after which the outer
\* section runs on.
HprefNestedRelease(t) ==
    /\ pc[t] = "hn_hold"
    /\ slots' = [slots EXCEPT ![cpu[t]] = NULL]
    /\ pc' = [pc EXCEPT ![t] = "h_release"]
    /\ UNCHANGED <<hpvars, ssp, refcount, released, held, cpu, addr, addr2, spn,
                   scancpu, loadslot>>

NextHN ==
    \/ NextH
    \/ \E t \in Readers : HprefNestedAcquire(t)
    \/ \E t \in Readers : HprefNestedRelease(t)

SpecHN == InitH /\ [][NextHN]_vars

\* C29: a hpref_hp_acquire on a CPU whose slot holds a non-NULL address
\* leaves that address in the slot, and the address stays there until the
\* release of the acquisition that stored it.
C29_AcquireKeepsOccupiedSlot ==
    /\ [][\A t \in Readers :
            (pc[t] = "h_release" /\ pc'[t] = "hn_hold" /\ slots[cpu[t]] # NULL)
                => slots'[cpu[t]] = slots[cpu[t]]]_vars
    /\ [](\A t \in Readers :
            pc[t] \in {"h_release", "hn_hold"} => slots[cpu[t]] = spn[t])

-----------------------------------------------------------------------------
(* The sharedptr operations statement by statement: the deletes with their *)
(* test of the handle, and sharedptr_copy_to_sync of an empty source.      *)

\* sharedptr_copy_to_sync(dst, src) with src->spn == NULL:
\*     spn = src->spn; if (spn) ...;
CtsEmpty(t) ==
    /\ t = Writer
    /\ pc[t] = "idle"
    /\ ssp = NULL
    /\ spn' = [spn EXCEPT ![t] = NULL]
    /\ pc' = [pc EXCEPT ![t] = "cts_pub"]
    /\ UNCHANGED <<hzvars, ssp, refcount, alloc, held>>

\* sharedptr_delete(sp, release): spn = sp->spn;  The handle sp is one of the
\* thread's struct sharedptr: one that references a node or an empty one.
SdLoad(t) ==
    /\ pc[t] = "idle"
    /\ \E h \in {NULL} \cup {n \in Nodes : held[t][n] > 0} :
        spn' = [spn EXCEPT ![t] = h]
    /\ pc' = [pc EXCEPT ![t] = "sd_test"]
    /\ UNCHANGED <<hzvars, ssp, refcount, alloc, held>>

\* A sharedptr_delete that leaves the handle filled.
SdTestKeepHandle(t) ==
    /\ pc[t] = "sd_test"
    /\ pc' = [pc EXCEPT ![t] = IF spn[t] = NULL THEN Idle ELSE "sd_dec"]
    /\ UNCHANGED <<hzvars, ssp, refcount, alloc, held, spn>>

\* sharedptr_delete: if (!spn) return; WRITE_ONCE(sp->spn, NULL);
SdTest(t) ==
    /\ pc[t] = "sd_test"
    /\ IF spn[t] = NULL
       THEN /\ pc' = [pc EXCEPT ![t] = Idle]
            /\ UNCHANGED held
       ELSE /\ pc' = [pc EXCEPT ![t] = "sd_dec"]
            /\ held' = [held EXCEPT ![t][spn[t]] = @ - 1]
    /\ UNCHANGED <<hzvars, ssp, refcount, alloc, spn>>

\* sharedptr_delete: if (refcount_dec_and_test(&spn->refcount)) { scan; release }
SdDec(t) ==
    /\ pc[t] = "sd_dec"
    /\ DecAndScan(t, spn[t])
    /\ UNCHANGED <<rsvars, api, oneshot, slots2, proto, cbcalls, ssp, slots, released, alloc, held, cpu, addr,
                   addr2, nested, loadslot>>

\* syncsharedptr_delete(ssp, release): spn = ssp->spn;
SsdLoad(t) ==
    /\ t = Writer
    /\ pc[t] = "idle"
    /\ spn' = [spn EXCEPT ![t] = ssp]
    /\ pc' = [pc EXCEPT ![t] = "ssd_test"]
    /\ UNCHANGED <<hzvars, ssp, refcount, alloc, held>>

\* syncsharedptr_delete: if (!spn) return; WRITE_ONCE(ssp->spn, NULL);
SsdTest(t) ==
    /\ pc[t] = "ssd_test"
    /\ IF spn[t] = NULL
       THEN /\ pc' = [pc EXCEPT ![t] = Idle]
            /\ UNCHANGED ssp
       ELSE /\ pc' = [pc EXCEPT ![t] = "sdel_dec"]
            /\ ssp' = NULL
    /\ UNCHANGED <<hzvars, refcount, alloc, held, spn>>

\* The steps that start an operation: the updater creates, copies and
\* publishes; a reader that holds no reference starts a
\* sharedptr_copy_from_sync; every thread deletes its handles.
BeginD(t) ==
    \/ sharedptr_create(t)
    \/ (t = Writer /\ sharedptr_copy(t))
    \/ sharedptr_move_to_sync(t)
    \/ CtsInc(t)
    \/ CtsEmpty(t)
    \/ SdLoad(t)
    \/ SsdLoad(t)
    \/ (t \in Readers /\ HeldBy(t) = 0 /\ LtpBegin(t))

\* The steps of sharedptr_copy_from_sync after its first load.
CfsStepD(t) ==
    \/ LtpProtect(t, "cfs_end")
    \/ LtpReload(t, "cfs_inc", "cfs_end")
    \/ LtpClear(t, "cfs_end")
    \/ CfsInc(t)
    \/ HazptrRelease(t, "cfs_release", "cfs_end")
    \/ CfsEnd(t)

\* The steps inside an operation that has started.
ContinueD(t) ==
    \/ CtsPublish(t)
    \/ SdTest(t)
    \/ SdDec(t)
    \/ SsdTest(t)
    \/ SdelDec(t)
    \/ ScanStep(t)
    \/ Release(t)
    \/ CfsStepD(t)

NextD ==
    \/ \E t \in Threads : BeginD(t)
    \/ \E t \in Threads : ContinueD(t)

SpecD == Init /\ [][NextD]_vars

-----------------------------------------------------------------------------
(* The sharedptr operations next to a callback-mode scan of the sharedptr  *)
(* domain, with threads that keep running.                                 *)

\* hazptr_scan(&hazptr_domain_sharedptr, addr, cb) with a callback, on the
\* address of a node that is not published (Store A precedes hazptr_scan):
\*     if (!addr) return; smp_mb(); for_each_possible_cpu ...
ScanCbBegin(t) ==
    /\ t = Writer
    /\ pc[t] = "idle"
    /\ \E a \in alloc \ {ssp} : spn' = [spn EXCEPT ![t] = a]
    /\ pc' = [pc EXCEPT ![t] = "scan_cb"]
    /\ scancpu' = [scancpu EXCEPT ![t] = 1]
    /\ cbcalls' = [c \in CPUs |-> 0]
    /\ UNCHANGED <<rsvars, api, oneshot, slots2, proto, ssp, slots, refcount, released, alloc, held,
                   cpu, addr, addr2, nested, loadslot>>

BeginE(t) ==
    \/ sharedptr_create(t)
    \/ (t = Writer /\ sharedptr_copy(t))
    \/ sharedptr_move_to_sync(t)
    \/ CtsInc(t)
    \/ CtsEmpty(t)
    \/ sharedptr_delete(t)
    \/ SdelClear(t)
    \/ ScanCbBegin(t)
    \/ (t \in Readers /\ HeldBy(t) = 0 /\ LtpBegin(t))

ContinueE(t) ==
    \/ CtsPublish(t)
    \/ SdelDec(t)
    \/ ScanStep(t)
    \/ Release(t)
    \/ ScanCbStep(t)
    \/ ScanCbReturn(t)
    \/ CfsStepD(t)

NextE ==
    \/ \E t \in Threads : BeginE(t)
    \/ \E t \in Threads : ContinueE(t)

SpecE == Init /\ [][NextE]_vars

\* A thread inside an operation keeps running: preemption is disabled in a
\* reader section, and a deleter or scanner is scheduled again.
SpecEFair == SpecE /\ \A t \in Threads : WF_vars(ContinueE(t))

-----------------------------------------------------------------------------
(* sharedptr_copy_to_sync and the deletes, statement by statement (SpecD). *)

\* C21: sharedptr_copy_to_sync(dst, src) with dst empty and src referencing
\* node n raises the count of n by one in a step that leaves dst empty, then
\* publishes n in dst without changing a count, and src references n
\* throughout; with src empty it changes no count and stores NULL in dst.
C21_CopyToSync ==
    /\ [][(pc[Writer] = "idle" /\ pc'[Writer] = "cts_pub")
            => /\ ssp = NULL /\ ssp' = NULL /\ held' = held
               /\ IF spn'[Writer] = NULL
                  THEN refcount' = refcount
                  ELSE /\ held[Writer][spn'[Writer]] > 0
                       /\ refcount' = [refcount EXCEPT ![spn'[Writer]] = @ + 1]]_vars
    /\ [][(pc[Writer] = "cts_pub" /\ pc'[Writer] # "cts_pub")
            => /\ ssp' = spn[Writer] /\ refcount' = refcount /\ held' = held
               /\ spn[Writer] # NULL
                    => /\ held[Writer][spn[Writer]] > 0
                       /\ refcount[spn[Writer]] >= 2
                       /\ released[spn[Writer]] = 0]_vars
    /\ [](pc[Writer] = "cts_pub" => ssp = NULL)

\* The copy has counted its reference to node 2 and has not published it
\* yet; src still references node 2, and a reader holds a reference to the
\* node published before.
C21_Witness ==
    /\ pc[Writer] = "cts_pub" /\ spn[Writer] = 2 /\ ssp = NULL
    /\ refcount[2] = 2 /\ held[Writer][2] = 1
    /\ \E t \in Readers : held[t][1] = 1

\* C24: sharedptr_delete and syncsharedptr_delete store NULL in their handle
\* in a step that changes no count, and decrement in a later step; called
\* on an empty handle (deleted before, or never filled) they return without
\* a decrement, a scan or a release callback.
C24_DeleteClearsThenDecrements ==
    /\ [][\A t \in Threads :
            (pc[t] = "sd_test" /\ pc'[t] # "sd_test")
                => /\ refcount' = refcount /\ released' = released /\ ssp' = ssp
                   /\ IF spn[t] = NULL
                      THEN held' = held /\ pc'[t] = "idle"
                      ELSE /\ held'[t][spn[t]] = held[t][spn[t]] - 1
                           /\ pc'[t] = "sd_dec"]_vars
    /\ [][(pc[Writer] = "ssd_test" /\ pc'[Writer] # "ssd_test")
            => /\ refcount' = refcount /\ released' = released /\ held' = held
               /\ IF spn[Writer] = NULL
                  THEN ssp' = ssp /\ ssp = NULL /\ pc'[Writer] = "idle"
                  ELSE ssp' = NULL /\ pc'[Writer] = "sdel_dec"]_vars
    /\ [][\A n \in Nodes :
            refcount'[n] < refcount[n]
                => \E t \in Threads :
                     /\ pc[t] \in {"sd_dec", "sdel_dec"} /\ spn[t] = n
                     /\ pc[t] = "sdel_dec" => ssp = NULL
                     /\ held' = held /\ ssp' = ssp
                     /\ refcount'[n] = refcount[n] - 1]_vars
    /\ [](\A t \in Threads : \A n \in Nodes :
            /\ refcount[n] >= held[t][n] + (IF pc[t] = "sd_dec" /\ spn[t] = n THEN 1 ELSE 0)
            /\ (pc[t] \in {"sd_dec", "sdel_dec"} /\ spn[t] = n) => refcount[n] >= 1)

\* The updater deletes the syncsharedptr a second time and has read NULL
\* from it, after its first delete released node 1; a reader is between the
\* clear of its handle and the decrement.
C24_Witness ==
    /\ pc[Writer] = "ssd_test" /\ spn[Writer] = NULL /\ ssp = NULL
    /\ released[1] = 1
    /\ \E t \in Readers : pc[t] = "sd_dec" /\ spn[t] = 2 /\ held[t][2] = 0

-----------------------------------------------------------------------------
(* Progress of the sharedptr operations (SpecEFair).                       *)

\* C23: a delete that takes a count to zero starts the blocking scan for the
\* node, and from then on the release callback of the node is eventually
\* called, the threads inside an operation being scheduled again and again;
\* the scanning thread leaves the scan only towards the release, the release
\* is always possible, and a step of the scan is possible exactly when the
\* slot it looks at holds another value than the node's address.
C23_DrainingLeadsToReclaimed ==
    /\ \A n \in Nodes :
        (\E t \in Threads : pc[t] = "scan" /\ spn[t] = n) ~> (released[n] = 1)
    /\ [][\A n \in Nodes :
            (refcount[n] = 1 /\ refcount'[n] = 0)
                => \E t \in Threads : pc[t] # "scan" /\ pc'[t] = "scan" /\ spn'[t] = n]_vars
    /\ [][\A t \in Threads :
            pc[t] \in {"scan", "release"}
                => \/ pc'[t] \in {"scan", "release"} /\ spn'[t] = spn[t]
                   \/ pc[t] = "release" /\ released'[spn[t]] = released[spn[t]] + 1]_vars
    /\ [](\A t \in Threads :
            /\ pc[t] = "release" => ENABLED Release(t)
            /\ pc[t] = "scan" => (ENABLED ScanStep(t) <=> slots[scancpu[t]] # spn[t]))

\* The blocking scan for a node whose count a delete took to zero waits on
\* the slot of a reader, whose promotion of that node has failed and which
\* has not released its hazard pointer yet.
C23_Witness ==
    \E t \in Threads : \E u \in Readers :
        /\ pc[t] = "scan" /\ refcount[spn[t]] = 0
        /\ scancpu[t] = cpu[u] /\ slots[cpu[u]] = spn[t]
        /\ pc[u] = "cfs_release" /\ spn[u] = NULL

-----------------------------------------------------------------------------
(* Two hazard pointer domains, each defined with DEFINE_HAZPTR_DOMAIN and  *)
(* so with per-CPU slots of its own: domain 1 owns slots, domain 2 slots2. *)

Domains == {1, 2}

\* hazptr_domain->percpu_slots
DomSlots(d) == IF d = 1 THEN slots ELSE slots2

\* preempt_disable() by the caller of hazptr_try_protect.
DomEnter(t) ==
    /\ pc[t] = "idle"
    /\ \E c \in FreeCPUs : cpu' = [cpu EXCEPT ![t] = c]
    /\ pc' = [pc EXCEPT ![t] = "dom"]
    /\ UNCHANGED <<rsvars, api, oneshot, slots2, proto, cbcalls, ssp, slots, refcount, released, alloc,
                   held, addr, addr2, spn, scancpu, nested, loadslot>>

\* A try_protect that looks at the slots of both domains on its CPU.
DomTryProtectShared(t, d, a) ==
    /\ pc[t] = "dom"
    /\ LET occ == IF slots[cpu[t]] # NULL THEN slots[cpu[t]] ELSE slots2[cpu[t]]
           r == hazptr_try_protect(occ, a) IN
        /\ IF r.ok
           THEN IF d = 1
                THEN slots' = [slots EXCEPT ![cpu[t]] = a] /\ UNCHANGED slots2
                ELSE slots2' = [slots2 EXCEPT ![cpu[t]] = a] /\ UNCHANGED slots
           ELSE UNCHANGED <<slots, slots2>>
        /\ nested' = [nested EXCEPT ![t] = IF r.ok THEN "ok" ELSE "fail"]
    /\ addr' = [addr EXCEPT ![t] = a]
    /\ UNCHANGED <<rsvars, api, oneshot, proto, cbcalls, ssp, refcount, released, alloc,
                   held, pc, cpu, addr2, spn, scancpu, loadslot>>

\* hazptr_try_protect(hazptr_domain, addr, &slot):
\*     slot = this_cpu_ptr(hazptr_domain->percpu_slots); ...
DomTryProtect(t, d, a) ==
    /\ pc[t] = "dom"
    /\ LET r == hazptr_try_protect(DomSlots(d)[cpu[t]], a) IN
        /\ IF d = 1
           THEN slots' = [slots EXCEPT ![cpu[t]] = r.slot] /\ UNCHANGED slots2
           ELSE slots2' = [slots2 EXCEPT ![cpu[t]] = r.slot] /\ UNCHANGED slots
        /\ nested' = [nested EXCEPT ![t] = IF r.ok THEN "ok" ELSE "fail"]
    /\ addr' = [addr EXCEPT ![t] = a]
    /\ UNCHANGED <<rsvars, api, oneshot, proto, cbcalls, ssp, refcount, released, alloc,
                   held, pc, cpu, addr2, spn, scancpu, loadslot>>

\* hazptr_release(slot, addr) on the slot a successful try_protect returned.
DomRelease(t, d) ==
    /\ pc[t] = "dom"
    /\ DomSlots(d)[cpu[t]] # NULL
    /\ IF d = 1
       THEN slots' = [slots EXCEPT ![cpu[t]] = NULL] /\ UNCHANGED slots2
       ELSE slots2' = [slots2 EXCEPT ![cpu[t]] = NULL] /\ UNCHANGED slots
    /\ nested' = [nested EXCEPT ![t] = "none"]
    /\ addr' = [addr EXCEPT ![t] = NULL]
    /\ UNCHANGED <<rsvars, api, oneshot, proto, cbcalls, ssp, refcount, released, alloc,
                   held, pc, cpu, addr2, spn, scancpu, loadslot>>

\* preempt_enable() once the thread has released what it protected.
DomLeave(t) ==
    /\ pc[t] = "dom"
    /\ slots[cpu[t]] = NULL
    /\ slots2[cpu[t]] = NULL
    /\ pc' = [pc EXCEPT ![t] = "idle"]
    /\ cpu' = [cpu EXCEPT ![t] = 0]
    /\ nested' = [nested EXCEPT ![t] = "none"]
    /\ addr' = [addr EXCEPT ![t] = NULL]
    /\ UNCHANGED <<rsvars, api, oneshot, slots2, proto, cbcalls, ssp, slots, refcount, released, alloc,
                   held, addr2, spn, scancpu, loadslot>>

\* The position of a thread inside hazptr_scan(domain d, addr, cb).
DomScanPc(d, cb) ==
    IF cb THEN (IF d = 1 THEN "dscan_cb1" ELSE "dscan_cb2")
          ELSE (IF d = 1 THEN "dscan1" ELSE "dscan2")

\* hazptr_scan(hazptr_domain, addr, on_match_cb): if (!addr) return; smp_mb();
DomScanBegin(t, d, cb) ==
    /\ pc[t] = "idle"
    /\ \E a \in Nodes : spn' = [spn EXCEPT ![t] = a]
    /\ scancpu' = [scancpu EXCEPT ![t] = 1]
    /\ cbcalls' = [c \in CPUs |-> 0]
    /\ pc' = [pc EXCEPT ![t] = DomScanPc(d, cb)]
    /\ UNCHANGED <<rsvars, api, oneshot, slots2, proto, ssp, slots, refcount, released, alloc,
                   held, cpu, addr, addr2, nested, loadslot>>

\* slot = per_cpu_ptr(percpu_slots, cpu);
\* smp_cond_load_acquire(&slot->addr, VAL != addr);
DomScanStep(t, d) ==
    /\ pc[t] = DomScanPc(d, FALSE)
    /\ DomSlots(d)[scancpu[t]] # spn[t]
    /\ IF scancpu[t] = NCPU
       THEN /\ pc' = [pc EXCEPT ![t] = "idle"]
            /\ spn' = [spn EXCEPT ![t] = NULL]
            /\ scancpu' = [scancpu EXCEPT ![t] = 0]
       ELSE /\ scancpu' = [scancpu EXCEPT ![t] = @ + 1]
            /\ UNCHANGED <<pc, spn>>
    /\ UNCHANGED <<rsvars, api, oneshot, slots2, proto, cbcalls, ssp, slots, refcount, released, alloc,
                   held, cpu, addr, addr2, nested, loadslot>>

\* slot = per_cpu_ptr(percpu_slots, cpu);
\* if (smp_load_acquire(&slot->addr) == addr) on_match_cb(cpu, slot, addr);
DomScanCbStep(t, d) ==
    /\ pc[t] = DomScanPc(d, TRUE)
    /\ cbcalls' = [cbcalls EXCEPT ![scancpu[t]] =
                     IF DomSlots(d)[scancpu[t]] = spn[t] THEN @ + 1 ELSE @]
    /\ scancpu' = [scancpu EXCEPT ![t] = @ + 1]
    /\ pc' = [pc EXCEPT ![t] = IF scancpu[t] = NCPU THEN "scan_cb_ret" ELSE @]
    /\ UNCHANGED <<rsvars, api, oneshot, slots2, proto, ssp, slots, refcount, released, alloc,
                   held, cpu, addr, addr2, spn, nested, loadslot>>

\* The addresses handed to try_protect and scan are those of existing objects.
InitDom ==
    /\ TypeInit
    /\ api = "hazptr"
    /\ oneshot = FALSE
    /\ ssp = NULL
    /\ alloc = Nodes
    /\ refcount = [n \in Nodes |-> 1]

NextDom ==
    \/ \E t \in Readers : DomEnter(t)
    \/ \E t \in Readers : \E d \in Domains : \E a \in Addrs : DomTryProtect(t, d, a)
    \/ \E t \in Readers : \E d \in Domains : DomRelease(t, d)
    \/ \E t \in Readers : DomLeave(t)
    \/ \E d \in Domains : \E cb \in BOOLEAN : DomScanBegin(Writer, d, cb)
    \/ \E d \in Domains : DomScanStep(Writer, d)
    \/ \E d \in Domains : DomScanCbStep(Writer, d)
    \/ ScanCbReturn(Writer)

SpecDom == InitDom /\ [][NextDom]_vars

\* C27: a try_protect, a release and a scan on one domain leave the slots
\* of the other domain unchanged and have an outcome fixed by the slots of
\* their own domain: try_protect succeeds exactly when the address is not
\* NULL and the slot of its domain on the calling CPU is empty, a blocking
\* scan can step exactly when the slot of its domain differs from the
\* address, and a callback scan calls back exactly on a match in its domain.
C27_DomainIndependence ==
    /\ [][\A t \in Readers : \A d \in Domains : \A a \in Addrs :
            DomTryProtect(t, d, a)
                => /\ d = 1 => slots2' = slots2
                   /\ d = 2 => slots' = slots
                   /\ nested'[t] = "ok" <=> (a # NULL /\ DomSlots(d)[cpu[t]] = NULL)
                   /\ nested'[t] = "ok" => DomSlots(d)'[cpu[t]] = a]_vars
    /\ [][\A t \in Readers : \A d \in Domains :
            DomRelease(t, d)
                => /\ d = 1 => slots2' = slots2
                   /\ d = 2 => slots' = slots]_vars
    /\ [][(pc[Writer] # "idle" /\ (pc'[Writer] # pc[Writer] \/ scancpu'[Writer] # scancpu[Writer]))
            => slots' = slots /\ slots2' = slots2]_vars
    /\ [](\A d \in Domains :
            pc[Writer] = DomScanPc(d, FALSE)
                => (ENABLED DomScanStep(Writer, d) <=> DomSlots(d)[scancpu[Writer]] # spn[Writer]))
    /\ [][\A d \in Domains : \A c \in CPUs :
            (pc[Writer] = DomScanPc(d, TRUE) /\ scancpu[Writer] = c /\ scancpu'[Writer] # c)
                => cbcalls'[c] = cbcalls[c] + (IF DomSlots(d)[c] = spn[Writer] THEN 1 ELSE 0)]_vars

\* A reader protects node 2 in domain 1 and node 1 in domain 2 on one CPU,
\* after a successful try_protect; a blocking scan of domain 1 for node 1
\* looks at that CPU.
C27_Witness ==
    \E t \in Readers :
        /\ pc[t] = "dom" /\ nested[t] = "ok"
        /\ slots[cpu[t]] = 2 /\ slots2[cpu[t]] = 1
        /\ pc[Writer] = "dscan1" /\ spn[Writer] = 1 /\ scancpu[Writer] = cpu[t]

-----------------------------------------------------------------------------
(* Reference-count conservation (SpecD).                                   *)

\* Number of non-empty handles that reference n: the syncsharedptr and the
\* struct sharedptr of every thread.
Handles(n) ==
    (IF ssp = n THEN 1 ELSE 0) + SumOver([t \in Threads |-> held[t][n]], Threads)

\* An operation has changed the count of n or a handle on n and has not
\* returned yet.
InProgress(n) ==
    \E t \in Threads :
        /\ spn[t] = n
        /\ pc[t] \in {"cts_pub", "sd_dec", "sdel_dec", "cfs_release", "cfs_end",
                      "scan", "release"}

\* C31: in every state reached by create, copy, move_to_sync, copy_to_sync,
\* copy_from_sync and the deletes, the count of a node is at least the
\* number of non-empty handles that reference it, and it is that number
\* when no operation on the node is in progress.
C31_CountConservation ==
    [](\A n \in Nodes :
         /\ refcount[n] >= Handles(n)
         /\ ~InProgress(n) => refcount[n] = Handles(n))

\* A reader has raised the count of node 1 and not yet returned its copy,
\* so the count exceeds the handles by one, while node 2 is referenced by
\* two handles and no operation on it is in progress.
C31_Witness ==
    /\ \E t \in Readers : pc[t] = "cfs_release" /\ spn[t] = 1
    /\ refcount[1] = Handles(1) + 1
    /\ ~InProgress(2) /\ Handles(2) = 2 /\ refcount[2] = 2

-----------------------------------------------------------------------------
(* No protection outlives its section (SpecP).                             *)

\* The positions of sharedptr_copy_from_sync and hpref_hp_refcount_inc
\* between the store to the slot and the clear or release of it.
Protecting == {"ltp_reload", "ltp_clear", "cfs_inc", "cfs_release",
               "h_reload", "h_clear", "h_inc", "h_release"}

\* C32: when sharedptr_copy_from_sync or hpref_hp_refcount_inc is about to
\* return, on any of its paths, the slot of the calling CPU is NULL, and
\* the return enables preemption again and changes no slot; a slot is
\* non-NULL only while a thread on its CPU is between its store to the slot
\* and its clear or release, with preemption disabled.
C32_NoLeakedProtection ==
    /\ [](\A t \in Readers : pc[t] \in {"cfs_end", "h_end"} => slots[cpu[t]] = NULL)
    /\ [][\A t \in Readers :
            (pc[t] \in {"cfs_end", "h_end"} /\ pc'[t] # pc[t])
                => /\ cpu[t] # 0 /\ cpu'[t] = 0
                   /\ pc'[t] \in {"idle", "h_idle"}
                   /\ slots' = slots]_vars
    /\ [](\A c \in CPUs :
            slots[c] # NULL
                => \E t \in Readers : cpu[t] = c /\ pc[t] \in Protecting)
    /\ [](\A t \in Threads : pc[t] \in {"idle", "h_idle"} => cpu[t] = 0)

\* One sharedptr_copy_from_sync is about to return a node and another is
\* about to return empty after the source became NULL at its second load;
\* the slots of both CPUs are NULL.
C32_Witness ==
    \E t \in Readers : \E u \in Readers :
        /\ pc[t] = "cfs_end" /\ spn[t] # NULL /\ slots[cpu[t]] = NULL
        /\ pc[u] = "cfs_end" /\ spn[u] = NULL /\ loadslot[u] # NULL
        /\ slots[cpu[u]] = NULL

-----------------------------------------------------------------------------
(* The check of hazptr_release (Spec).                                     *)

\* C33: whenever sharedptr_copy_from_sync is about to call
\* hazptr_release(slot, hp), the slot of its CPU holds hp, the address its
\* load_try_protect returned; from that return to the release the thread
\* stays on its CPU and nothing writes to the slot, which the release sets
\* to NULL.
C33_ReleaseCheckHolds ==
    /\ [](\A t \in Readers :
            pc[t] \in {"cfs_inc", "cfs_release"}
                => /\ addr2[t] # NULL /\ slots[cpu[t]] = addr2[t]
                   /\ \A u \in Threads : u # t => cpu[u] # cpu[t])
    /\ [][\A t \in Readers :
            pc[t] \in {"cfs_inc", "cfs_release"}
                => /\ pc'[t] # "idle" => cpu'[t] = cpu[t]
                   /\ slots'[cpu[t]] # slots[cpu[t]]
                        => pc[t] = "cfs_release" /\ pc'[t] = "cfs_end"
                           /\ slots'[cpu[t]] = NULL]_vars
    /\ [][\A t \in Readers :
            (pc[t] # "cfs_inc" /\ pc'[t] = "cfs_inc")
                => pc[t] = "ltp_reload" /\ addr[t] = ssp /\ slots[cpu[t]] = addr[t]]_vars

\* A reader holds node 2 in its slot, has counted its reference and is
\* about to release; another reader, whose promotion of node 1 failed, is
\* about to release the slot that still holds node 1.
C33_Witness ==
    \E t \in Readers : \E u \in Readers :
        /\ pc[t] = "cfs_release" /\ spn[t] = 2 /\ slots[cpu[t]] = 2
        /\ pc[u] = "cfs_release" /\ spn[u] = NULL /\ slots[cpu[u]] = 1

-----------------------------------------------------------------------------
(* The scanning thread holds no hazard pointer (SpecD).                    *)

\* C34: a thread is inside the blocking scan only with preemption enabled
\* and without a slot of its own; it enters the scan only from the
\* decrement of sharedptr_delete or syncsharedptr_delete; and whenever the
\* scan waits on a slot, another thread is inside a reader section on that
\* slot's CPU.
C34_NoSelfWait ==
    /\ [](\A t \in Threads : pc[t] \in {"scan", "release"} => cpu[t] = 0)
    /\ [][\A t \in Threads :
            (pc[t] # "scan" /\ pc'[t] = "scan")
                => pc[t] \in {"sd_dec", "sdel_dec"} /\ cpu[t] = 0]_vars
    /\ [](\A t \in Threads :
            (pc[t] = "scan" /\ slots[scancpu[t]] = spn[t])
                => \E u \in Readers :
                     /\ u # t /\ cpu[u] = scancpu[t]
                     /\ pc[u] \in {"ltp_reload", "ltp_clear", "cfs_inc", "cfs_release"})
    /\ [](\A t \in Threads :
            pc[t] \in {"ltp_protect", "ltp_reload", "ltp_clear", "cfs_inc", "cfs_release",
                       "cfs_end"} <=> cpu[t] # 0)

\* A reader that deletes the last sharedptr on node 1 is inside the blocking
\* scan and waits on the slot of the other reader, which stored node 1
\* before it was unpublished.
C34_Witness ==
    \E t \in Readers : \E u \in Readers :
        /\ t # u
        /\ pc[t] = "scan" /\ spn[t] = 1 /\ cpu[t] = 0
        /\ scancpu[t] = cpu[u] /\ slots[cpu[u]] = 1

-----------------------------------------------------------------------------
(* The scans of the three APIs side by side: a run uses hazptr_scan or     *)
(* hp_scan, in either mode, or hpref_synchronize.                          *)

InitScan == InitB \/ InitH

NextScan ==
    \/ NextC
    \/ NextH

SpecScan == InitScan /\ [][NextScan]_vars

\* C35: a scan (hazptr_scan or hp_scan in either mode, hpref_synchronize)
\* called with a NULL address, as after a store to a published pointer that
\* held NULL, returns within the step of the call: no slot is inspected, no
\* callback is called, nothing is released; so no scan is ever in progress
\* for a NULL address, and a blocking scan never waits on an empty slot.
C35_NullScanReturns ==
    /\ [][(pc[Writer] \in {"idle", "h_idle"} /\ ssp = NULL /\ ssp' # NULL)
            => /\ pc'[Writer] = pc[Writer]
               /\ scancpu' = scancpu /\ spn' = spn
               /\ cbcalls' = cbcalls /\ released' = released /\ slots' = slots]_vars
    /\ [](\A t \in Threads :
            pc[t] \in {"scan", "scan_cb", "h_sync"} => spn[t] # NULL)
    /\ [](\A t \in Threads :
            /\ (pc[t] = "scan" /\ slots[scancpu[t]] = NULL) => ENABLED ScanStep(t)
            /\ (pc[t] = "h_sync" /\ slots[scancpu[t]] = NULL) => ENABLED hpref_synchronize(t))

\* The published pointer holds NULL after the retirer stored NULL and its
\* scan for node 1 returned; every slot is empty; the retirer is about to
\* publish a new node and to scan for the NULL address it replaced.
C35_Witness ==
    /\ pc[Writer] = "idle" /\ ssp = NULL /\ Fresh = {2}
    /\ released[1] = 1
    /\ \A c \in CPUs : slots[c] = NULL

-----------------------------------------------------------------------------
(* The two revisions of the API in lockstep: every call is made once with  *)
(* the hazptr_ functions on the table slots and once with the hp_          *)
(* functions on the table slots2, with the same arguments, by the same     *)
(* thread on the same CPU; control follows the hazptr_ side.               *)

\* hazptr_try_protect(domain, addr, &slot) and hp_allocate(percpu_slots, addr)
\* inside __hazptr_load_try_protect and hp_dereference_allocate.
EqProtect(t) ==
    /\ pc[t] = "ltp_protect"
    /\ LET r1 == hazptr_try_protect(slots[cpu[t]], addr[t])
           r2 == hp_allocate(slots2[cpu[t]], addr[t]) IN
        /\ slots' = [slots EXCEPT ![cpu[t]] = r1.slot]
        /\ slots2' = [slots2 EXCEPT ![cpu[t]] = r2.slot]
        /\ IF r1.ok
           THEN /\ pc' = [pc EXCEPT ![t] = "ltp_reload"]
                /\ UNCHANGED <<addr, addr2>>
           ELSE /\ pc' = [pc EXCEPT ![t] = "rd_end"]
                /\ addr' = [addr EXCEPT ![t] = NULL]
                /\ addr2' = [addr2 EXCEPT ![t] = NULL]
    /\ UNCHANGED <<rsvars, api, oneshot, proto, cbcalls, ssp, refcount, released, alloc, held, cpu,
                   spn, scancpu, nested, loadslot>>

\* WRITE_ONCE(slot->addr, NULL) and WRITE_ONCE(ctx.slot->addr, NULL) after a
\* failed revalidation; if (!addr2) return NULL / goto fail; else retry.
EqClear(t) ==
    /\ pc[t] = "ltp_clear"
    /\ slots' = [slots EXCEPT ![cpu[t]] = NULL]
    /\ slots2' = [slots2 EXCEPT ![cpu[t]] = NULL]
    /\ IF addr2[t] = NULL
       THEN /\ pc' = [pc EXCEPT ![t] = "rd_end"]
            /\ addr' = [addr EXCEPT ![t] = NULL]
       ELSE /\ pc' = [pc EXCEPT ![t] = "ltp_protect"]
            /\ addr' = [addr EXCEPT ![t] = addr2[t]]
    /\ addr2' = [addr2 EXCEPT ![t] = NULL]
    /\ UNCHANGED <<rsvars, api, oneshot, proto, cbcalls, ssp, refcount, released, alloc, held,
                   cpu, spn, scancpu, nested, loadslot>>

\* hazptr_try_protect and hp_allocate called with address a by a thread that
\* holds a protected address.
EqNested(t) ==
    /\ pc[t] = "hold"
    /\ nested[t] = "none"
    /\ \E a \in Addrs :
        LET r1 == hazptr_try_protect(slots[cpu[t]], a)
            r2 == hp_allocate(slots2[cpu[t]], a) IN
        /\ slots' = [slots EXCEPT ![cpu[t]] = r1.slot]
        /\ slots2' = [slots2 EXCEPT ![cpu[t]] = r2.slot]
        /\ nested' = [nested EXCEPT ![t] = IF r1.ok THEN "ok" ELSE "fail"]
        /\ addr' = [addr EXCEPT ![t] = a]
    /\ UNCHANGED <<rsvars, api, oneshot, proto, cbcalls, ssp, refcount, released, alloc, held, pc, cpu,
                   addr2, spn, scancpu, loadslot>>

\* hazptr_release(slot, addr) and hp_retire(ctx):
\*     smp_store_release(&slot->addr, NULL); smp_store_release(&ctx.slot->addr, NULL);
EqRelease(t) ==
    /\ pc[t] = "hold"
    /\ slots' = [slots EXCEPT ![cpu[t]] = NULL]
    /\ slots2' = [slots2 EXCEPT ![cpu[t]] = NULL]
    /\ pc' = [pc EXCEPT ![t] = "rd_end"]
    /\ addr2' = [addr2 EXCEPT ![t] = NULL]
    /\ loadslot' = [loadslot EXCEPT ![t] = NULL]
    /\ UNCHANGED <<rsvars, api, oneshot, proto, cbcalls, ssp, refcount, released, alloc, held, cpu,
                   addr, spn, scancpu, nested>>

\* hazptr_scan: smp_cond_load_acquire(&slot->addr, VAL != addr);
\* hp_scan: while (smp_load_acquire(&slot->addr) == addr) cpu_relax();
\* The pair moves to the next CPU when both loops have ended.
EqScanStep(t) ==
    /\ pc[t] = "scan"
    /\ scancpu[t] \in CPUs
    /\ slots[scancpu[t]] # spn[t]
    /\ slots2[scancpu[t]] # spn[t]
    /\ scancpu' = [scancpu EXCEPT ![t] = @ + 1]
    /\ pc' = [pc EXCEPT ![t] = IF scancpu[t] = NCPU THEN "release" ELSE "scan"]
    /\ UNCHANGED <<rsvars, api, oneshot, slots2, proto, cbcalls, ssp, slots, refcount, released, alloc,
                   held, cpu, addr, addr2, spn, nested, loadslot>>

\* Both scans with a callback: if (smp_load_acquire(&slot->addr) == addr)
\* on_match_cb(cpu, slot, addr);  cbcalls counts the calls of hazptr_scan.
EqScanCbStep(t) ==
    /\ pc[t] = "scan_cb"
    /\ scancpu[t] \in CPUs
    /\ cbcalls' = [cbcalls EXCEPT ![scancpu[t]] =
                     IF slots[scancpu[t]] = spn[t] THEN @ + 1 ELSE @]
    /\ scancpu' = [scancpu EXCEPT ![t] = @ + 1]
    /\ pc' = [pc EXCEPT ![t] = IF scancpu[t] = NCPU THEN "scan_cb_ret" ELSE "scan_cb"]
    /\ UNCHANGED <<rsvars, api, oneshot, slots2, proto, ssp, slots, refcount, released, alloc, held,
                   cpu, addr, addr2, spn, nested, loadslot>>

InitEq ==
    /\ InitB
    /\ api = "hazptr"

ReaderEq(t) ==
    \/ LtpBegin(t)
    \/ EqProtect(t)
    \/ LtpReload(t, "hold", "rd_end")
    \/ EqClear(t)
    \/ EqNested(t)
    \/ EqRelease(t)
    \/ RdEnd(t)

RetirerEq(t) ==
    \/ Unpublish(t)
    \/ EqScanStep(t)
    \/ Release(t)
    \/ UnpublishCb(t)
    \/ EqScanCbStep(t)
    \/ ScanCbReturn(t)

NextEq ==
    \/ \E t \in Readers : ReaderEq(t)
    \/ RetirerEq(Writer)

SpecEq == InitEq /\ [][NextEq]_vars

-----------------------------------------------------------------------------
(* The rseq test mutex: rseq_lock / rseq_unlock and the loop of            *)
(* test_thread.  A thread's rseq_abi_sched_state is named by the thread.   *)

\* The variables of the hazard pointer model.
kvars == <<api, oneshot, ssp, slots, refcount, released, alloc, held, pc, cpu,
           addr, addr2, spn, scancpu, nested, loadslot, cbcalls, proto, slots2>>

\* abort() has been called: the process is gone.
Aborted == \E t \in Threads : rpc[t] = "abort"

\* A slow path whose compare-and-swap takes the lock whatever the owner is.
RseqSlowCasSteal(t) ==
    /\ ~Aborted
    /\ rpc[t] = "slow_cas"
    /\ owner' = t
    /\ rpc' = [rpc EXCEPT ![t] = "cs_read"]
    /\ UNCHANGED <<kvars, testvar, expected, busy, iter>>

\* rseq_lock: if (__atomic_compare_exchange_n(&lock->owner, &expected, self, ...))
\* return; rseq_lock_slowpath(lock);  with expected = NULL and int i = 0.
RseqLock(t) ==
    /\ ~Aborted
    /\ rpc[t] = "lock"
    /\ IF owner = NULL
       THEN /\ owner' = t
            /\ rpc' = [rpc EXCEPT ![t] = "cs_read"]
       ELSE /\ rpc' = [rpc EXCEPT ![t] = "slow_cas"]
            /\ UNCHANGED owner
    /\ busy' = [busy EXCEPT ![t] = 0]
    /\ UNCHANGED <<kvars, testvar, expected, iter>>

\* rseq_lock_slowpath: expected = NULL; the compare-and-swap; break on
\* success, on failure expected holds the owner that was found.
RseqSlowCas(t) ==
    /\ ~Aborted
    /\ rpc[t] = "slow_cas"
    /\ IF owner = NULL
       THEN /\ owner' = t
            /\ rpc' = [rpc EXCEPT ![t] = "cs_read"]
            /\ expected' = [expected EXCEPT ![t] = NULL]
       ELSE /\ rpc' = [rpc EXCEPT ![t] = "slow_wait"]
            /\ expected' = [expected EXCEPT ![t] = owner]
            /\ UNCHANGED owner
    /\ UNCHANGED <<kvars, testvar, busy, iter>>

\* rseq_lock_slowpath: RSEQ_READ_ONCE(expected->state) & ..._ON_CPU, and
\* i < RSEQ_MUTEX_MAX_BUSY_LOOP: rseq_barrier(); i++;  else poll(NULL, 0, 10).
\* The flag is the scheduler's, and the thread read may have left by now.
RseqSlowWait(t) ==
    /\ ~Aborted
    /\ rpc[t] = "slow_wait"
    /\ \E oncpu \in BOOLEAN :
        busy' = [busy EXCEPT ![t] = IF oncpu /\ @ < MaxBusyLoop THEN @ + 1 ELSE @]
    /\ rpc' = [rpc EXCEPT ![t] = "slow_cas"]
    /\ UNCHANGED <<kvars, owner, testvar, expected, iter>>

\* test_thread: var = RSEQ_READ_ONCE(testvar); if (var) abort();
TestRead(t) ==
    /\ ~Aborted
    /\ rpc[t] = "cs_read"
    /\ rpc' = [rpc EXCEPT ![t] = IF testvar # 0 THEN "abort" ELSE "cs_set"]
    /\ UNCHANGED <<kvars, owner, testvar, expected, busy, iter>>

\* test_thread: RSEQ_WRITE_ONCE(testvar, 1);
TestSet(t) ==
    /\ ~Aborted
    /\ rpc[t] = "cs_set"
    /\ testvar' = 1
    /\ rpc' = [rpc EXCEPT ![t] = "cs_pause"]
    /\ UNCHANGED <<kvars, owner, expected, busy, iter>>

\* test_thread: poll(NULL, 0, 10) or rseq_barrier(); RSEQ_WRITE_ONCE(testvar, 0);
TestClear(t) ==
    /\ ~Aborted
    /\ rpc[t] = "cs_pause"
    /\ testvar' = 0
    /\ rpc' = [rpc EXCEPT ![t] = "unlock"]
    /\ UNCHANGED <<kvars, owner, expected, busy, iter>>

\* rseq_unlock: __atomic_store_n(&lock->owner, NULL, __ATOMIC_RELEASE);
\* and the i++ / i < 1000 of the loop of test_thread.
RseqUnlock(t) ==
    /\ ~Aborted
    /\ rpc[t] = "unlock"
    /\ owner' = NULL
    /\ iter' = [iter EXCEPT ![t] = @ + 1]
    /\ rpc' = [rpc EXCEPT ![t] = IF iter[t] + 1 >= MaxIter THEN "done" ELSE "lock"]
    /\ UNCHANGED <<kvars, testvar, expected, busy>>

test_thread(t) ==
    \/ RseqLock(t)
    \/ RseqSlowCas(t)
    \/ RseqSlowWait(t)
    \/ TestRead(t)
    \/ TestSet(t)
    \/ TestClear(t)
    \/ RseqUnlock(t)

InitRseq ==
    /\ TypeInit
    /\ api = "hazptr"
    /\ oneshot = FALSE
    /\ ssp = NULL
    /\ alloc = {}
    /\ refcount = [n \in Nodes |-> 0]

NextRseq == \E t \in Threads : test_thread(t)

SpecRseq == InitRseq /\ [][NextRseq]_vars

\* The threads between a completed rseq_lock and the store of rseq_unlock.
Holders == {t \in Threads : rpc[t] \in {"cs_read", "cs_set", "cs_pause", "unlock"}}

\* C37: at most one thread is between a completed rseq_lock and its
\* rseq_unlock; no thread finds testvar non-zero on entry (none aborts) and
\* testvar is written by the holder only; owner is non-NULL exactly while
\* the lock is held, and names the holder; a thread comes to hold the lock
\* only by a step that finds owner NULL and stores the thread in it.
C37_MutualExclusion ==
    /\ [](Cardinality(Holders) <= 1)
    /\ [](\A t \in Threads : rpc[t] # "abort")
    /\ [](\A t \in Threads : rpc[t] = "cs_read" => testvar = 0)
    /\ [][testvar' # testvar => \E t \in Holders : rpc'[t] # rpc[t]]_vars
    /\ [](owner # NULL <=> Holders # {})
    /\ [](\A t \in Holders : owner = t)
    /\ [][\A t \in Threads :
            (t \notin Holders /\ rpc'[t] \in {"cs_read", "cs_set", "cs_pause", "unlock"})
                => /\ owner = NULL
                   /\ owner' = t
                   /\ rpc[t] \in {"lock", "slow_cas"}]_vars

\* One thread is inside the critical section with testvar set while another
\* waits in the slow path, having found the first as owner and busy-waited.
C37_Witness ==
    \E t \in Threads : \E u \in Threads \ {t} :
        /\ rpc[t] = "cs_pause" /\ testvar = 1 /\ owner = t
        /\ rpc[u] = "slow_wait" /\ expected[u] = t /\ busy[u] > 0
        /\ iter[t] > 0

====
